---------------------------- MODULE Spec2Model ----------------------------
(***************************************************************************)
(* A model of labelarr: the keyword normalizer and duplicate reconciler,   *)
(* the TMDb identifier resolver, the TMDb keyword fetch, the processed-    *)
(* items store, the export accumulator and the per-library processing      *)
(* loop.                                                                   *)
(*                                                                         *)
(* Strings of the program are sequences of one-character strings, so that  *)
(* case folding, trimming, splitting and the regular expressions of the    *)
(* source can be computed character by character.                          *)
(***************************************************************************)
EXTENDS Integers, Sequences, FiniteSets, TLC

VARIABLES
    \* ---- pure-function harness (normalizer, reconciler, resolver) ----
    input,          \* the argument(s) the function under study is applied to
    output,         \* the sequence of results obtained so far
    \* ---- synchronization engine (Processor, Storage, Exporter, Plex) ----
    cfg,            \* config.Config: UpdateField, ForceUpdate, export enabled
    plexTags,       \* the catalog: item -> current values of the configured field
    storageData,    \* Storage.data: item -> ProcessedItem or NoRecord
    storageFile,    \* processed_items.json on disk: item -> ProcessedItem or NoRecord
    accumulated,    \* Exporter.accumulated: <<library, label>> -> sequence of paths
    currentLibrary, \* Exporter.currentLibrary
    exportFiles,    \* export location on disk: <<library, label>> -> file content
    phase,          \* position of handleNormalMode / ProcessAllItems
    pass,           \* number of the pass in progress (1 is the immediate one)
    cursor,         \* index of the next item of the library being processed
    counters,       \* newItems, updatedItems, skippedItems of the library in progress
    last,           \* what the most recent loop iteration did (observation)
    visited,        \* item -> what its most recent visit did (observation)
    failures,       \* failures of calls and of disk operations injected so far, per pass
    \* ---- TMDb client ----
    fetch,          \* state of one GetMovieKeywords / GetTVShowKeywords call
    \* ---- text-mode flush ----
    flush           \* state of one Exporter.flushTxt call, step by step

pureVars   == <<input, output>>
engineVars == <<cfg, plexTags, storageData, storageFile, accumulated, currentLibrary,
                exportFiles, phase, pass, cursor, counters, last, visited, failures>>
fetchVars  == <<fetch>>
flushVars  == <<flush>>
vars       == <<pureVars, engineVars, fetchVars, flushVars>>

---------------------------------------------------------------------------
(* Characters and the string functions of Go's strings and unicode          *)
(* packages that the source uses.                                           *)

UpperLetters ==
    <<"A","B","C","D","E","F","G","H","I","J","K","L","M",
      "N","O","P","Q","R","S","T","U","V","W","X","Y","Z">>

LowerLetters ==
    <<"a","b","c","d","e","f","g","h","i","j","k","l","m",
      "n","o","p","q","r","s","t","u","v","w","x","y","z">>

Digits == {"0","1","2","3","4","5","6","7","8","9"}

Range(s) == { s[i] : i \in DOMAIN s }

UpperSet == Range(UpperLetters)
LowerSet == Range(LowerLetters)
AlnumSet == UpperSet \cup LowerSet \cup Digits
\* \w of the regular expressions
WordSet  == AlnumSet \cup {"_"}
\* \s of the regular expressions, unicode.IsSpace on the characters used here
SpaceSet == {" ", "\t", "\n", "\r"}

IsUpper(c) == c \in UpperSet
IsLower(c) == c \in LowerSet
IsDigit(c) == c \in Digits
IsAlnum(c) == c \in AlnumSet
IsWordChar(c) == c \in WordSet
IsSpace(c) == c \in SpaceSet
IsNonSpace(c) == c \notin SpaceSet

\* unicode.ToLower and unicode.ToUpper on letters
LowerOf == [c \in UpperSet |->
              LowerLetters[CHOOSE i \in DOMAIN UpperLetters : UpperLetters[i] = c]]
UpperOf == [c \in LowerSet |->
              UpperLetters[CHOOSE i \in DOMAIN LowerLetters : LowerLetters[i] = c]]

ToLowerChar(c) == IF c \in UpperSet THEN LowerOf[c] ELSE c
ToUpperChar(c) == IF c \in LowerSet THEN UpperOf[c] ELSE c

ToLower(s) == [i \in 1..Len(s) |-> ToLowerChar(s[i])]
ToUpper(s) == [i \in 1..Len(s) |-> ToUpperChar(s[i])]

\* strings.EqualFold on the characters used here
EqualFold(s, t) == ToLower(s) = ToLower(t)

Drop(s, n) == SubSeq(s, n + 1, Len(s))

HasPrefix(s, p) == Len(p) <= Len(s) /\ SubSeq(s, 1, Len(p)) = p
HasSuffix(s, p) == Len(p) <= Len(s) /\ SubSeq(s, Len(s) - Len(p) + 1, Len(s)) = p

\* strings.Contains
Contains(s, p) ==
    \E i \in 1..(Len(s) - Len(p) + 1) : SubSeq(s, i, i + Len(p) - 1) = p

\* The last index j >= i such that every character of s[i..j] is in chars;
\* i - 1 when s[i] is not.
RunEnd(s, i, chars) ==
    LET stops == { j \in i..Len(s) : s[j] \notin chars }
    IN  IF stops = {} THEN Len(s)
        ELSE (CHOOSE j \in stops : \A k \in stops : j <= k) - 1

\* The same for the characters that are not in chars.
RunEndNot(s, i, chars) ==
    LET stops == { j \in i..Len(s) : s[j] \in chars }
    IN  IF stops = {} THEN Len(s)
        ELSE (CHOOSE j \in stops : \A k \in stops : j <= k) - 1

\* strings.TrimSpace
TrimSpace(s) ==
    LET keep == { i \in 1..Len(s) : ~IsSpace(s[i]) }
    IN  IF keep = {} THEN <<>>
        ELSE SubSeq(s, CHOOSE i \in keep : \A j \in keep : i <= j,
                       CHOOSE i \in keep : \A j \in keep : j <= i)

\* strings.Fields: the maximal runs of non-space characters, in order
RECURSIVE FieldsFrom(_, _)
FieldsFrom(s, i) ==
    IF i > Len(s) THEN <<>>
    ELSE IF IsSpace(s[i]) THEN FieldsFrom(s, i + 1)
    ELSE LET e == RunEndNot(s, i, SpaceSet)
         IN  <<SubSeq(s, i, e)>> \o FieldsFrom(s, e + 1)

Fields(s) == FieldsFrom(s, 1)

\* strings.Split(s, c) for a one-character separator c
RECURSIVE SplitFrom(_, _, _)
SplitFrom(s, c, i) ==
    LET rest == { j \in i..Len(s) : s[j] = c }
    IN  IF rest = {} THEN <<SubSeq(s, i, Len(s))>>
        ELSE LET j == CHOOSE x \in rest : \A y \in rest : x <= y
             IN  <<SubSeq(s, i, j - 1)>> \o SplitFrom(s, c, j + 1)

Split(s, c) == SplitFrom(s, c, 1)

\* strings.Join
RECURSIVE Join(_, _)
Join(parts, sep) ==
    IF Len(parts) = 0 THEN <<>>
    ELSE IF Len(parts) = 1 THEN parts[1]
    ELSE parts[1] \o sep \o Join(Tail(parts), sep)

---------------------------------------------------------------------------
(* The normalization tables (internal/tmdb/types.go, package utils).        *)

\* Acronyms and abbreviations that are rendered in upper case (keys of the Go map).
commonAcronyms ==
    { <<"u","s","a">>,
      <<"u","k">>,
      <<"u","s">>,
      <<"u",".","s",".">>,
      <<"f","b","i">>,
      <<"c","i","a">>,
      <<"n","s","a">>,
      <<"d","e","a">>,
      <<"a","t","f">>,
      <<"i","c","e">>,
      <<"e","p","a">>,
      <<"i","r","s">>,
      <<"s","e","c">>,
      <<"n","a","s","a">>,
      <<"n","y","p","d">>,
      <<"l","a","p","d">>,
      <<"s","w","a","t">>,
      <<"d","c">>,
      <<"n","y","c">>,
      <<"l","a">>,
      <<"s","f">>,
      <<"a","i">>,
      <<"a",".","i",".">>,
      <<"c","g","i">>,
      <<"v","r">>,
      <<"a","r">>,
      <<"3","d">>,
      <<"4","k">>,
      <<"h","d">>,
      <<"u","h","d">>,
      <<"l","g","b","t">>,
      <<"l","g","b","t","q">>,
      <<"w","w","i">>,
      <<"w","w","i","i">>,
      <<"u","f","o">>,
      <<"t","v">>,
      <<"m","t","v">>,
      <<"v","h","s">>,
      <<"d","v","d">>,
      <<"c","d">>,
      <<"d","j">>,
      <<"m","c">>,
      <<"b","c">>,
      <<"a","d">>,
      <<"b","b","c">>,
      <<"c","b","s">>,
      <<"n","b","c">>,
      <<"a","b","c">>,
      <<"c","n","n">>,
      <<"s","u","v">>,
      <<"r","v">>,
      <<"p","h","d">>,
      <<"m","d">>,
      <<"c","e","o">>,
      <<"c","t","o">>,
      <<"c","f","o">>,
      <<"h","r">>,
      <<"i","t">>,
      <<"p","r">>,
      <<"p","c">>,
      <<"m","a","c">>,
      <<"i","o","s">>,
      <<"o","s">> }

\* Articles, prepositions and conjunctions that stay lower case (keys of the Go map).
lowercaseWords ==
    { <<"a">>,
      <<"a","n">>,
      <<"a","n","d">>,
      <<"a","s">>,
      <<"a","t">>,
      <<"b","u","t">>,
      <<"b","y">>,
      <<"f","o","r">>,
      <<"f","r","o","m">>,
      <<"i","n">>,
      <<"i","n","t","o">>,
      <<"n","o","r">>,
      <<"o","f">>,
      <<"o","n">>,
      <<"o","r">>,
      <<"o","v","e","r">>,
      <<"t","h","e">>,
      <<"t","o">>,
      <<"u","p">>,
      <<"w","i","t","h">>,
      <<"w","i","t","h","i","n">> }

\* Literal replacements: each element is <<key, replacement>>.
criticalReplacements ==
    { << <<"s","c","i","-","f","i">>,
         <<"S","c","i","-","F","i">> >>,
      << <<"s","c","i","f","i">>,
         <<"S","c","i","-","F","i">> >>,
      << <<"s","c","i"," ","f","i">>,
         <<"S","c","i","-","F","i">> >>,
      << <<"r","o","m","c","o","m">>,
         <<"R","o","m","a","n","t","i","c"," ","C","o","m","e","d","y">> >>,
      << <<"r","o","m","-","c","o","m">>,
         <<"R","o","m","a","n","t","i","c"," ","C","o","m","e","d","y">> >>,
      << <<"b","i","o","-","p","i","c">>,
         <<"B","i","o","p","i","c">> >>,
      << <<"b","i","o"," ","p","i","c">>,
         <<"B","i","o","p","i","c">> >>,
      << <<"n","e","o","-","n","o","i","r">>,
         <<"N","e","o","-","N","o","i","r">> >>,
      << <<"n","e","o"," ","n","o","i","r">>,
         <<"N","e","o","-","N","o","i","r">> >>,
      << <<"d","u","r","i","n","g","c","r","e","d","i","t","s","s","t","i","n","g","e","r">>,
         <<"D","u","r","i","n","g"," ","C","r","e","d","i","t","s"," ","S","t","i","n","g","e","r">> >>,
      << <<"a","f","t","e","r","c","r","e","d","i","t","s","s","t","i","n","g","e","r">>,
         <<"A","f","t","e","r"," ","C","r","e","d","i","t","s"," ","S","t","i","n","g","e","r">> >>,
      << <<"m","i","d","c","r","e","d","i","t","s","s","t","i","n","g","e","r">>,
         <<"M","i","d"," ","C","r","e","d","i","t","s"," ","S","t","i","n","g","e","r">> >> }

\* Alternatives of both groups of relationshipPattern.
kinshipWords ==
    { <<"f","a","t","h","e","r">>,
      <<"m","o","t","h","e","r">>,
      <<"p","a","r","e","n","t">>,
      <<"b","r","o","t","h","e","r">>,
      <<"s","i","s","t","e","r">>,
      <<"s","o","n">>,
      <<"d","a","u","g","h","t","e","r">> }

\* Alternatives of the first group of ethnicityPattern.
ethnicityWords ==
    { <<"a","f","r","i","c","a","n">>,
      <<"a","s","i","a","n">>,
      <<"e","u","r","o","p","e","a","n">>,
      <<"a","m","e","r","i","c","a","n">>,
      <<"b","r","i","t","i","s","h">>,
      <<"f","r","e","n","c","h">>,
      <<"g","e","r","m","a","n">>,
      <<"i","t","a","l","i","a","n">>,
      <<"s","p","a","n","i","s","h">>,
      <<"c","h","i","n","e","s","e">>,
      <<"j","a","p","a","n","e","s","e">>,
      <<"k","o","r","e","a","n">>,
      <<"i","n","d","i","a","n">>,
      <<"m","e","x","i","c","a","n">>,
      <<"l","a","t","i","n">>,
      <<"h","i","s","p","a","n","i","c">> }

\* Alternatives of the second group of ethnicityPattern.
descriptorWords ==
    { <<"a","m","e","r","i","c","a","n">>,
      <<"l","e","a","d">>,
      <<"c","h","a","r","a","c","t","e","r">>,
      <<"p","r","o","t","a","g","o","n","i","s","t">>,
      <<"a","n","t","a","g","o","n","i","s","t">>,
      <<"a","c","t","o","r">>,
      <<"a","c","t","r","e","s","s">> }

\* Alternatives of the second group of agencyPattern.
roleWords ==
    { <<"a","g","e","n","t">>,
      <<"d","i","r","e","c","t","o","r">>,
      <<"o","f","f","i","c","e","r">>,
      <<"i","n","v","e","s","t","i","g","a","t","o","r">>,
      <<"d","e","t","e","c","t","i","v","e">>,
      <<"o","p","e","r","a","t","i","v","e">>,
      <<"a","n","a","l","y","s","t">>,
      <<"c","h","i","e","f">>,
      <<"d","e","p","u","t","y">>,
      <<"s","p","e","c","i","a","l"," ","a","g","e","n","t">> }

---------------------------------------------------------------------------
(* The regular expressions of the normalizer.  Each operator returns the    *)
(* sequence of captured groups of the leftmost match, or <<>> when the      *)
(* expression does not match (FindStringSubmatch returning nil); a pattern  *)
(* used through MatchString is a predicate.                                 *)

NoMatch == <<>>

\* decadePattern: ^\d{4}s$
decadePattern(s) ==
    /\ Len(s) = 5
    /\ \A i \in 1..4 : IsDigit(s[i])
    /\ s[5] = "s"

\* cityStatePattern: ^([^,]+),\s*([^,]+)$
cityStatePattern(s) ==
    LET commas == { i \in 1..Len(s) : s[i] = "," }
    IN  IF Cardinality(commas) # 1 THEN NoMatch
        ELSE LET c == CHOOSE i \in commas : TRUE
                 e == RunEnd(s, c + 1, SpaceSet)
             IN  IF c = 1 \/ c = Len(s) THEN NoMatch
                 ELSE IF e < Len(s)
                      THEN <<SubSeq(s, 1, c - 1), SubSeq(s, e + 1, Len(s))>>
                      \* \s* gives its last character back to the second group
                      ELSE <<SubSeq(s, 1, c - 1), SubSeq(s, Len(s), Len(s))>>

\* versusPattern at a given start: \b(\w+)\s+vs\s+(\w+)\b
versusAt(s, i) ==
    LET e1 == RunEnd(s, i, WordSet)
        w1 == RunEnd(s, e1 + 1, SpaceSet)
        w2 == RunEnd(s, w1 + 3, SpaceSet)
        e2 == RunEnd(s, w2 + 1, WordSet)
    IN  IF /\ IsWordChar(s[i])
           /\ (i = 1 \/ ~IsWordChar(s[i - 1]))
           /\ w1 >= e1 + 1
           /\ w1 + 2 <= Len(s)
           /\ s[w1 + 1] = "v"
           /\ s[w1 + 2] = "s"
           /\ w2 >= w1 + 3
           /\ e2 >= w2 + 1
        THEN <<SubSeq(s, i, e1), SubSeq(s, w2 + 1, e2)>>
        ELSE NoMatch

\* versusPattern is not anchored: the leftmost start that matches wins
versusPattern(s) ==
    LET starts == { i \in 1..Len(s) : versusAt(s, i) # NoMatch }
    IN  IF starts = {} THEN NoMatch
        ELSE versusAt(s, CHOOSE i \in starts : \A j \in starts : i <= j)

\* basedOnPattern: ^based on (.+)$
basedOnPrefix == <<"b","a","s","e","d"," ","o","n"," ">>

basedOnPattern(s) ==
    IF /\ HasPrefix(s, basedOnPrefix)
       /\ Len(s) > Len(basedOnPrefix)
       /\ \A i \in (Len(basedOnPrefix) + 1)..Len(s) : s[i] # "\n"
    THEN <<Drop(s, Len(basedOnPrefix))>>
    ELSE NoMatch

relationshipWord == <<"r","e","l","a","t","i","o","n","s","h","i","p">>

\* relationshipPattern: ^(kin)\s+(kin)(?:\s+relationship)?$
relationshipPattern(s) ==
    LET f == Fields(s)
    IN  /\ Len(s) > 0
        /\ ~IsSpace(s[1])
        /\ ~IsSpace(s[Len(s)])
        /\ Len(f) \in {2, 3}
        /\ f[1] \in kinshipWords
        /\ f[2] \in kinshipWords
        /\ (Len(f) = 3 => f[3] = relationshipWord)

\* ethnicityPattern: ^(ethnicity)\s+(descriptor)$
ethnicityPattern(s) ==
    LET f == Fields(s)
    IN  /\ Len(s) > 0
        /\ ~IsSpace(s[1])
        /\ ~IsSpace(s[Len(s)])
        /\ Len(f) = 2
        /\ f[1] \in ethnicityWords
        /\ f[2] \in descriptorWords

IsLowerOrDot(c) == IsLower(c) \/ c = "."

\* acronymInParensPattern: ^(.+)\s+\(([a-z.]+)\)$
acronymInParensPattern(s) ==
    LET opens == { i \in 1..Len(s) : s[i] = "(" }
        p     == CHOOSE i \in opens : \A j \in opens : j <= i
    IN  IF /\ Len(s) >= 5
           /\ s[Len(s)] = ")"
           /\ opens # {}
           /\ p >= 3
           /\ p + 1 <= Len(s) - 1
           /\ \A k \in (p + 1)..(Len(s) - 1) : IsLowerOrDot(s[k])
           /\ IsSpace(s[p - 1])
           /\ \A k \in 1..(p - 2) : s[k] # "\n"
        THEN <<SubSeq(s, 1, p - 2), SubSeq(s, p + 1, Len(s) - 1)>>
        ELSE NoMatch

\* agencyPattern: ^([a-z]{2,5})\s+(role)$
agencyPattern(s) ==
    LET e1 == RunEnd(s, 1, LowerSet)
        w  == RunEnd(s, e1 + 1, SpaceSet)
    IN  IF /\ e1 >= 2
           /\ e1 <= 5
           /\ w >= e1 + 1
           /\ Drop(s, w) \in roleWords
        THEN <<SubSeq(s, 1, e1), Drop(s, w)>>
        ELSE NoMatch

centuryWord == <<"c","e","n","t","u","r","y">>

ordinalSuffixes == { <<"s","t">>, <<"n","d">>, <<"r","d">>, <<"t","h">> }

\* centuryPattern: ^(\d+)(st|nd|rd|th)\s+century(\s+[a-z]+)?$
centuryPattern(s) ==
    LET d  == RunEnd(s, 1, Digits)
        w  == RunEnd(s, d + 3, SpaceSet)
        c  == w + Len(centuryWord)
        w3 == RunEnd(s, c + 1, SpaceSet)
    IN  IF /\ d >= 1
           /\ d + 2 <= Len(s)
           /\ SubSeq(s, d + 1, d + 2) \in ordinalSuffixes
           /\ w >= d + 3
           /\ c <= Len(s)
           /\ SubSeq(s, w + 1, c) = centuryWord
           /\ \/ c = Len(s)
              \/ /\ w3 >= c + 1
                 /\ w3 < Len(s)
                 /\ \A k \in (w3 + 1)..Len(s) : IsLower(s[k])
        THEN <<SubSeq(s, 1, d), SubSeq(s, d + 1, d + 2), Drop(s, c)>>
        ELSE NoMatch

---------------------------------------------------------------------------
(* The keyword normalizer.                                                  *)

\* titleCase: a word in title case; mixed case is kept, the parts of a
\* hyphenated word are capitalized one by one
Capitalize(s) ==
    IF Len(s) = 0 THEN s
    ELSE <<ToUpperChar(ToLowerChar(s[1]))>> \o ToLower(Tail(s))

titleCase(s) ==
    LET hasLower == \E i \in 1..Len(s) : IsLower(s[i])
        hasUpper == \E i \in 1..Len(s) : IsUpper(s[i])
        parts    == Split(s, "-")
    IN  IF Len(s) = 0 THEN s
        ELSE IF hasLower /\ hasUpper THEN s
        ELSE IF "-" \in Range(s)
             THEN Join([i \in 1..Len(parts) |-> Capitalize(parts[i])], <<"-">>)
        ELSE Capitalize(s)

\* applyTitleCase: title case of a phrase, word by word
titleCaseWord(word, i) ==
    IF ToLower(word) \in commonAcronyms THEN ToUpper(word)
    ELSE IF i = 1 \/ ToLower(word) \notin lowercaseWords THEN titleCase(word)
    ELSE ToLower(word)

applyTitleCase(phrase) ==
    LET words == Fields(phrase)
    IN  IF Len(words) = 0 THEN phrase
        ELSE Join([i \in 1..Len(words) |-> titleCaseWord(words[i], i)], <<" ">>)

\* the relationship and ethnicity branches: every field in title case
titleCaseFields(keyword) ==
    LET parts == Fields(keyword)
    IN  Join([i \in 1..Len(parts) |-> titleCase(parts[i])], <<" ">>)

relationshipResult(keyword) ==
    LET result == titleCaseFields(keyword)
    IN  IF HasSuffix(ToLower(result), relationshipWord)
        THEN result
        ELSE result \o <<" ">> \o Capitalize(relationshipWord)

agencyResult(m) ==
    IF m[1] \in commonAcronyms \/ Len(m[1]) <= 4
    THEN ToUpper(m[1]) \o <<" ">> \o titleCase(m[2])
    ELSE titleCase(m[1]) \o <<" ">> \o titleCase(m[2])

centuryResult(m) ==
    LET century == m[1] \o m[2] \o <<" ">> \o Capitalize(centuryWord)
        suffix  == TrimSpace(m[3])
    IN  IF m[3] = <<>> THEN century
        ELSE IF suffix \in commonAcronyms \/ Len(suffix) <= 2
             THEN century \o <<" ">> \o ToUpper(suffix)
        ELSE century \o <<" ">> \o titleCase(suffix)

\* applyPatternNormalization: the first pattern that matches decides;
\* <<>> when none does
applyPatternNormalization(keyword) ==
    IF decadePattern(keyword) THEN keyword
    ELSE IF cityStatePattern(keyword) # NoMatch
         THEN applyTitleCase(cityStatePattern(keyword)[1]) \o <<",", " ">>
                \o applyTitleCase(cityStatePattern(keyword)[2])
    ELSE IF versusPattern(keyword) # NoMatch
         THEN applyTitleCase(versusPattern(keyword)[1]) \o <<" ","v","s"," ">>
                \o applyTitleCase(versusPattern(keyword)[2])
    ELSE IF basedOnPattern(keyword) # NoMatch
         THEN <<"B","a","s","e","d"," ","o","n"," ">>
                \o applyTitleCase(basedOnPattern(keyword)[1])
    ELSE IF relationshipPattern(keyword) THEN relationshipResult(keyword)
    ELSE IF ethnicityPattern(keyword) THEN titleCaseFields(keyword)
    ELSE IF acronymInParensPattern(keyword) # NoMatch
         THEN applyTitleCase(acronymInParensPattern(keyword)[1]) \o <<" ", "(">>
                \o ToUpper(acronymInParensPattern(keyword)[2]) \o <<")">>
    ELSE IF agencyPattern(keyword) # NoMatch
         THEN agencyResult(agencyPattern(keyword))
    ELSE IF centuryPattern(keyword) # NoMatch
         THEN centuryResult(centuryPattern(keyword))
    ELSE <<>>

\* the replacement of a key of criticalReplacements
replacementOf(lowerKeyword) ==
    (CHOOSE p \in criticalReplacements : p[1] = lowerKeyword)[2]

\* NormalizeKeyword
NormalizeKeyword(keyword) ==
    LET trimmed      == TrimSpace(keyword)
        lowerKeyword == ToLower(trimmed)
    IN  IF trimmed = <<>> THEN trimmed
        ELSE IF \E p \in criticalReplacements : p[1] = lowerKeyword
             THEN replacementOf(lowerKeyword)
        ELSE IF applyPatternNormalization(lowerKeyword) # <<>>
             THEN applyPatternNormalization(lowerKeyword)
        ELSE IF lowerKeyword \in commonAcronyms THEN ToUpper(trimmed)
        ELSE applyTitleCase(trimmed)

\* The keys of a dedup map: the lower-case forms of the first n elements
LowerKeys(list, n) == { ToLower(list[i]) : i \in 1..n }

\* NormalizeKeywords: normalize every keyword and keep, of the results that
\* are equal ignoring case, the first
\* the loop of NormalizeKeywords with the seen map never written
RECURSIVE dedupUnmarked(_, _, _)
dedupUnmarked(list, i, acc) ==
    IF i > Len(list) THEN acc
    ELSE dedupUnmarked(list, i + 1, Append(acc, list[i]))

RECURSIVE dedupFold(_, _, _)
dedupFold(list, i, acc) ==
    IF i > Len(list) THEN acc
    ELSE IF ToLower(list[i]) \in LowerKeys(acc, Len(acc))
         THEN dedupFold(list, i + 1, acc)
    ELSE dedupFold(list, i + 1, Append(acc, list[i]))

NormalizeKeywords(keywords) ==
    dedupFold([i \in 1..Len(keywords) |-> NormalizeKeyword(keywords[i])], 1, <<>>)

\* normalizedMap of CleanDuplicateKeywords: lower-case form -> the keyword;
\* a later keyword with the same key overwrites an earlier one
properFormOf(newNormalizedKeywords, lowerKey) ==
    LET hits == { i \in 1..Len(newNormalizedKeywords) :
                     ToLower(newNormalizedKeywords[i]) = lowerKey }
    IN  newNormalizedKeywords[CHOOSE i \in hits : \A j \in hits : j <= i]

\* toRemove with the lookup in normalizedMap left out: every current keyword
\* that is not literally a new keyword is marked
toRemoveWithoutLookup(currentKeywords, newNormalizedKeywords) ==
    { currentKeywords[i] : i \in
        { k \in 1..Len(currentKeywords) :
            currentKeywords[k] \notin Range(newNormalizedKeywords) } }

\* toRemove of CleanDuplicateKeywords: the current keywords whose normalized
\* form is a new keyword (ignoring case) that differs from their own text
toRemove(currentKeywords, newNormalizedKeywords) ==
    { currentKeywords[i] : i \in
        { k \in 1..Len(currentKeywords) :
            LET normalizedLower == ToLower(NormalizeKeyword(currentKeywords[k]))
            IN  /\ normalizedLower \in
                     LowerKeys(newNormalizedKeywords, Len(newNormalizedKeywords))
                /\ currentKeywords[k] #
                     properFormOf(newNormalizedKeywords, normalizedLower) } }

\* the two loops that build the cleaned list: append what is neither in
\* skip nor already seen ignoring case
RECURSIVE appendUnseen(_, _, _, _)
appendUnseen(list, i, skip, cleaned) ==
    IF i > Len(list) THEN cleaned
    ELSE IF list[i] \notin skip /\ ToLower(list[i]) \notin LowerKeys(cleaned, Len(cleaned))
         THEN appendUnseen(list, i + 1, skip, Append(cleaned, list[i]))
    ELSE appendUnseen(list, i + 1, skip, cleaned)

\* CleanDuplicateKeywords with the keywords marked for removal kept out of
\* the second loop as well
CleanDuplicateKeywordsSkippingNew(currentKeywords, newNormalizedKeywords) ==
    appendUnseen(newNormalizedKeywords, 1, toRemove(currentKeywords, newNormalizedKeywords),
        appendUnseen(currentKeywords, 1,
                     toRemove(currentKeywords, newNormalizedKeywords), <<>>))

\* CleanDuplicateKeywords with its two loops exchanged
CleanDuplicateKeywordsNewFirst(currentKeywords, newNormalizedKeywords) ==
    appendUnseen(currentKeywords, 1, toRemove(currentKeywords, newNormalizedKeywords),
        appendUnseen(newNormalizedKeywords, 1, {}, <<>>))

\* CleanDuplicateKeywords
CleanDuplicateKeywords(currentKeywords, newNormalizedKeywords) ==
    appendUnseen(newNormalizedKeywords, 1, {},
        appendUnseen(currentKeywords, 1,
                     toRemove(currentKeywords, newNormalizedKeywords), <<>>))

---------------------------------------------------------------------------
(* Values of the variables a specification does not use.                    *)

Idle == "idle"

PureIdle   == input = Idle /\ output = Idle
EngineIdle ==
    /\ cfg = Idle /\ plexTags = Idle /\ storageData = Idle /\ storageFile = Idle
    /\ accumulated = Idle /\ currentLibrary = Idle /\ exportFiles = Idle
    /\ phase = Idle /\ pass = Idle /\ cursor = Idle /\ counters = Idle
    /\ last = Idle /\ visited = Idle /\ failures = Idle
FetchIdle  == fetch = Idle
FlushIdle  == flush = Idle

---------------------------------------------------------------------------
(* SpecNormalize: NormalizeKeyword applied, and applied again to its own    *)
(* result.  input is the raw keyword, output the successive results.        *)

\* how many times the normalizer is applied in a row
MaxApplications == 2

Fragments ==
    { <<"s","c","i">>, <<"f","i">>, <<"b","i","o">>, <<"p","i","c">>,
      <<"f","b","i">>, <<"a","g","e","n","t">>, <<"f","a","t","h","e","r">>,
      <<"s","o","n">>, <<"t","h","e">> }

Separators ==
    { <<" ">>, <<" ", " ">>, <<"-">>, <<",", " ">>, <<" ","v","s"," ">> }

CaseForms(s) == { s, ToUpper(s), Capitalize(s) }

\* two fragments with a separator between them
Pairs == { a \o sep \o b : a \in Fragments, b \in Fragments, sep \in Separators }

\* the words put in front of a pair to make a phrase of three words
LeadFragments == { <<"t","h","e">>, <<"b","i","o">> }

Phrases ==
    Fragments \cup Pairs \cup { a \o <<" ">> \o p : a \in LeadFragments, p \in Pairs }

\* raw keywords: one to three fragments, in lower, upper or capitalized case,
\* bare or surrounded by whitespace
NormInputs ==
    UNION { { f, <<" ">> \o f \o <<"\t">> } : f \in UNION { CaseForms(p) : p \in Phrases } }

InitNormalize ==
    /\ input \in NormInputs
    /\ output = <<>>
    /\ EngineIdle /\ FetchIdle /\ FlushIdle

ApplyNormalize ==
    /\ Len(output) < MaxApplications
    /\ output' = Append(output,
                   NormalizeKeyword(IF output = <<>> THEN input ELSE output[Len(output)]))
    /\ UNCHANGED <<input, engineVars, fetchVars, flushVars>>

NextNormalize == ApplyNormalize

SpecNormalize == InitNormalize /\ [][NextNormalize]_vars

\* C4: normalization is idempotent: normalizing the result of a
\* normalization gives that result again, for every input string.
C4_NormalizeIdempotent ==
    Len(output) >= 2 => output[2] = output[1]

---------------------------------------------------------------------------
(* SpecReconcile: CleanDuplicateKeywords applied to a current tag list and  *)
(* a list of freshly normalized keywords.  input is <<current, fresh>>,     *)
(* output the successive results.                                           *)

\* the longest current tag list
MaxCurrentTags == 3
\* the longest list of raw keywords the provider returns
MaxRawKeywords == 2

\* tags found on an item: normalized keywords, stale variants of them and
\* manually added tags
TagPool ==
    { <<"A","c","t","i","o","n">>, <<"a","c","t","i","o","n">>,
      <<"s","c","i","-","f","i">>, <<"S","c","i","-","F","i">>,
      <<"C","u","s","t","o","m"," ","T","a","g">>,
      <<"s","c","i"," ","f","i">>, <<"s","c","i"," "," ","f","i">> }

\* keyword names as the provider returns them
RawKeywordPool ==
    { <<"s","c","i","-","f","i">>, <<"a","c","t","i","o","n">>,
      <<"s","c","i"," "," ","f","i">> }

SeqsUpTo(S, n) == UNION { [1..k -> S] : k \in 0..n }

\* what GetMovieKeywords returns: the normalized, deduplicated keywords
FreshLists == { NormalizeKeywords(raw) : raw \in SeqsUpTo(RawKeywordPool, MaxRawKeywords) }

\* the documented example: four current tags, two fresh keywords
ExampleInput ==
    << << <<"A","c","t","i","o","n">>, <<"s","c","i","-","f","i">>,
          <<"D","r","a","m","a">>, <<"C","u","s","t","o","m"," ","T","a","g">> >>,
       NormalizeKeywords(<< <<"s","c","i","-","f","i">>,
                            <<"t","i","m","e"," ","t","r","a","v","e","l">> >>) >>

InitReconcile ==
    /\ input \in (SeqsUpTo(TagPool, MaxCurrentTags) \X FreshLists) \cup {ExampleInput}
    /\ output = <<>>
    /\ EngineIdle /\ FetchIdle /\ FlushIdle

ApplyClean ==
    /\ Len(output) < MaxApplications
    /\ output' = Append(output,
                   CleanDuplicateKeywords(
                       IF output = <<>> THEN input[1] ELSE output[Len(output)],
                       input[2]))
    /\ UNCHANGED <<input, engineVars, fetchVars, flushVars>>

NextReconcile == ApplyClean

SpecReconcile == InitReconcile /\ [][NextReconcile]_vars

\* the current tags reconciliation must not touch: their normalized form
\* is, ignoring case, no fresh keyword
Untouchable(current, fresh) ==
    { i \in 1..Len(current) :
        ToLower(NormalizeKeyword(current[i])) \notin LowerKeys(fresh, Len(fresh)) }

\* the first element of the list that equals list[i] ignoring case
FirstFold(list, i) ==
    list[CHOOSE j \in 1..i :
            /\ ToLower(list[j]) = ToLower(list[i])
            /\ \A k \in 1..(j - 1) : ToLower(list[k]) # ToLower(list[i])]

---------------------------------------------------------------------------
(* The identifier extractor and the multi-source resolver                   *)
(* (package media, Processor).                                              *)

\* ExtractTMDbIDFromPath matches
\*   (?i)(?:^|[^a-zA-Z0-9])tmdb[^a-zA-Z0-9]*(\d+)(?:[^a-zA-Z0-9]|$)
\* tokenAt without the boundary before the token
tokenAtAnywhere(s, t) ==
    /\ t + 3 <= Len(s)
    /\ ToLower(SubSeq(s, t, t + 3)) = <<"t","m","d","b">>

\* tokenAt: "tmdb", in any letter case, starts at t and the character before
\* it is the start of the string or no letter or digit
tokenAt(s, t) ==
    /\ t + 3 <= Len(s)
    /\ ToLower(SubSeq(s, t, t + 3)) = <<"t","m","d","b">>
    /\ (t = 1 \/ s[t - 1] \notin AlnumSet)

\* the digit run captured when the expression matches with the token at t,
\* NoMatch otherwise: the separators and the digits are maximal runs, and the
\* character after the digits is the end of the string or no letter or digit
captureAt(s, t) ==
    IF ~tokenAt(s, t) THEN NoMatch
    ELSE LET sepEnd   == RunEndNot(s, t + 4, AlnumSet)
             digitEnd == RunEnd(s, sepEnd + 1, Digits)
         IN  IF digitEnd > sepEnd /\ (digitEnd = Len(s) \/ s[digitEnd + 1] \notin AlnumSet)
             THEN SubSeq(s, sepEnd + 1, digitEnd)
             ELSE NoMatch

\* ExtractTMDbIDFromPath returning the rightmost match
ExtractRightmostTMDbIDFromPath(filePath) ==
    LET hits == { t \in 1..Len(filePath) : captureAt(filePath, t) # NoMatch }
    IN  IF hits = {} THEN <<>>
        ELSE captureAt(filePath, CHOOSE t \in hits : \A u \in hits : t >= u)

\* FindStringSubmatch returns the leftmost match
ExtractTMDbIDFromPath(filePath) ==
    LET hits == { t \in 1..Len(filePath) : captureAt(filePath, t) # NoMatch }
    IN  IF hits = {} THEN <<>>
        ELSE captureAt(filePath, CHOOSE t \in hits : \A u \in hits : t <= u)

\* strconv.Itoa for n >= 0
DigitChars == <<"0","1","2","3","4","5","6","7","8","9">>

RECURSIVE Itoa(_)
Itoa(n) ==
    IF n < 10 THEN <<DigitChars[n + 1]>>
    ELSE Itoa(n \div 10) \o <<DigitChars[(n % 10) + 1]>>

\* strings.Split(s, sep) for a separator of any length >= 1
RECURSIVE SplitOn(_, _)
SplitOn(s, sep) ==
    LET hits == { i \in 1..(Len(s) - Len(sep) + 1) : SubSeq(s, i, i + Len(sep) - 1) = sep }
    IN  IF hits = {} THEN <<s>>
        ELSE LET i == CHOOSE x \in hits : \A y \in hits : x <= y
             IN  <<SubSeq(s, 1, i - 1)>> \o SplitOn(Drop(s, i + Len(sep) - 1), sep)

\* strings.TrimPrefix
TrimPrefix(s, p) == IF HasPrefix(s, p) THEN Drop(s, Len(p)) ELSE s

\* the first element of the list that satisfies the test, 0 when none does
FirstIndex(flags) ==
    LET hits == { i \in 1..Len(flags) : flags[i] }
    IN  IF hits = {} THEN 0 ELSE CHOOSE i \in hits : \A j \in hits : i <= j

\* An answer of Radarr or Sonarr to one lookup: NoEntry when the call fails
\* or finds nothing, otherwise the tmdbId field of the entry found (0 when
\* the entry carries none).
NoEntry == -1

\* GetTMDbIDFromMovie, GetTMDbIDFromSeries
GetTMDbIDFromMovie(tmdbId) == IF tmdbId > 0 THEN Itoa(tmdbId) ELSE <<>>
GetTMDbIDFromSeries(tmdbId) == IF tmdbId > 0 THEN Itoa(tmdbId) ELSE <<>>

\* The result of a resolution: the identifier ("" when absent) and the
\* sources consulted, in the order they were consulted.
Resolved(id, trace) == [id |-> id, trace |-> trace]

\* the first loop of extractMovieTMDbID finding nothing
movieGuidIndexNone(guids) == 0

\* first loop of extractMovieTMDbID: the first GUID containing "tmdb://",
\* cut after "//" and before "?"
movieGuidIndex(guids) ==
    FirstIndex([i \in 1..Len(guids) |-> Contains(guids[i], <<"t","m","d","b",":","/","/">>)])

movieGuidID(guid) == SplitOn(SplitOn(guid, <<"/","/">>)[2], <<"?">>)[1]

\* first loop of extractTVShowTMDbID: the first GUID with prefix "tmdb://"
tvGuidIndex(guids) ==
    FirstIndex([i \in 1..Len(guids) |-> HasPrefix(guids[i], <<"t","m","d","b",":","/","/">>)])

\* the GUIDs containing a marker, in order
guidsWith(guids, marker) ==
    SelectSeq(guids, LAMBDA g : Contains(g, marker))

\* the path loop over the files: the extraction of the first file that has
\* one, and one "regex" step per file examined
pathFallback(files, trace) ==
    LET k == FirstIndex([i \in 1..Len(files) |-> ExtractTMDbIDFromPath(files[i]) # <<>>])
    IN  IF k = 0
        THEN Resolved(<<>>, trace \o [i \in 1..Len(files) |-> "regex"])
        ELSE Resolved(ExtractTMDbIDFromPath(files[k]), trace \o [i \in 1..k |-> "regex"])

\* a loop of lookups, one per key, that returns at the first entry found:
\* <<index of the first key answered with an entry or 0, steps made>>
lookupLoop(answers, n, step) ==
    LET k == FirstIndex([i \in 1..n |-> answers[i] # NoEntry])
    IN  <<k, [i \in 1..(IF k = 0 THEN n ELSE k) |-> step]>>

\* extractMovieTMDbID: the Plex GUIDs, then Radarr by title and year, by
\* file path and by IMDb identifier, then the file paths themselves
extractMovieTMDbID(item, radarr) ==
    LET g      == movieGuidIndex(item.guids)
        byPath == lookupLoop(radarr.byPath, Len(item.files), "path")
        imdbs  == guidsWith(item.guids, <<"i","m","d","b",":","/","/">>)
        byIMDb == lookupLoop([i \in 1..Len(imdbs) |-> radarr.byIMDb], Len(imdbs), "imdb")
    IN  IF g # 0 THEN Resolved(movieGuidID(item.guids[g]), <<>>)
        ELSE IF ~radarr.enabled THEN pathFallback(item.files, <<>>)
        ELSE IF radarr.byTitle # NoEntry
             THEN Resolved(GetTMDbIDFromMovie(radarr.byTitle), <<"title">>)
        ELSE IF byPath[1] # 0
             THEN Resolved(GetTMDbIDFromMovie(radarr.byPath[byPath[1]]),
                           <<"title">> \o byPath[2])
        ELSE IF byIMDb[1] # 0
             THEN Resolved(GetTMDbIDFromMovie(radarr.byIMDb),
                           <<"title">> \o byPath[2] \o byIMDb[2])
        ELSE pathFallback(item.files, <<"title">> \o byPath[2] \o byIMDb[2])

\* fmt.Sscanf(s, "%d", &n) succeeds: after leading spaces and an optional
\* sign the text starts with a digit
ScansInt(s) ==
    LET t == Drop(s, RunEnd(s, 1, SpaceSet))
        u == IF t # <<>> /\ t[1] \in {"+", "-"} THEN Tail(t) ELSE t
    IN  u # <<>> /\ u[1] \in Digits

\* extractTVShowTMDbID: the Plex GUIDs, then Sonarr by title and year, by
\* TVDb identifier, by IMDb identifier and by episode file path, then the
\* episode file paths themselves.  item.files are the episode files a
\* successful GetTVShowEpisodes returns; episodesOK[1] and episodesOK[2] tell
\* whether its first and its second call succeed.
extractTVShowTMDbID(item, sonarr, episodesOK) ==
    LET g      == tvGuidIndex(item.guids)
        tvdbs  == SelectSeq(guidsWith(item.guids, <<"t","v","d","b",":","/","/">>),
                            LAMBDA x : ScansInt(TrimPrefix(x, <<"t","v","d","b",":","/","/">>)))
        byTVDb == lookupLoop([i \in 1..Len(tvdbs) |-> sonarr.byTVDb], Len(tvdbs), "tvdb")
        imdbs  == guidsWith(item.guids, <<"i","m","d","b",":","/","/">>)
        byIMDb == lookupLoop([i \in 1..Len(imdbs) |-> sonarr.byIMDb], Len(imdbs), "imdb")
        byPath == IF episodesOK[1]
                  THEN lookupLoop(sonarr.byPath, Len(item.files), "path")
                  ELSE <<0, <<>>>>
        before == <<"title">> \o byTVDb[2] \o byIMDb[2] \o <<"episodes">> \o byPath[2]
        fallback(trace) ==
            IF episodesOK[2] THEN pathFallback(item.files, trace \o <<"episodes">>)
            ELSE Resolved(<<>>, trace \o <<"episodes">>)
    IN  IF g # 0 THEN Resolved(TrimPrefix(item.guids[g], <<"t","m","d","b",":","/","/">>), <<>>)
        ELSE IF ~sonarr.enabled THEN fallback(<<>>)
        ELSE IF sonarr.byTitle # NoEntry
             THEN Resolved(GetTMDbIDFromSeries(sonarr.byTitle), <<"title">>)
        ELSE IF byTVDb[1] # 0
             THEN Resolved(GetTMDbIDFromSeries(sonarr.byTVDb), <<"title">> \o byTVDb[2])
        ELSE IF byIMDb[1] # 0
             THEN Resolved(GetTMDbIDFromSeries(sonarr.byIMDb),
                           <<"title">> \o byTVDb[2] \o byIMDb[2])
        ELSE IF byPath[1] # 0
             THEN Resolved(GetTMDbIDFromSeries(sonarr.byPath[byPath[1]]), before)
        ELSE fallback(before)

---------------------------------------------------------------------------
(* SpecResolve: extractTMDbID applied to one item.  input is the item, the  *)
(* answers of Radarr or Sonarr and the outcome of the episode listing;      *)
(* output the result.                                                       *)

GuidLists ==
    { <<>>,
      <<<<"i","m","d","b",":","/","/","t","t","0","1","3","3","0","9","3">>>>,
      <<<<"t","v","d","b",":","/","/","7","3","2","5","5">>>>,
      <<<<"t","m","d","b",":","/","/","1","3">>>>,
      <<<<"i","m","d","b",":","/","/","t","t","0","1","3","3","0","9","3">>, <<"t","m","d","b",":","/","/","1","3","?","l","a","n","g","=","e","n">>>> }

FileLists ==
    { <<>>,
      <<<<"/","m","/","T","h","e"," ","M","a","t","r","i","x"," ","(","1","9","9","9",")","/","a",".","m","k","v">>>>,
      <<<<"/","m","/","T","h","e"," ","M","a","t","r","i","x"," ","[","t","m","d","b","-","6","0","3","]","/","a",".","m","k","v">>>>,
      <<<<"/","m","/","x","/","a",".","m","k","v">>, <<"/","m","/","x"," ","{","T","M","D","B"," ","6","0","3","}","/","b",".","m","k","v">>>> }

ResolveItems == [guids : GuidLists, files : FileLists]

\* the tmdbId fields of the entries Radarr and Sonarr hold
ArrTMDbIDs == {0, 550}
ArrAnswers == {NoEntry} \cup ArrTMDbIDs

ArrDisabled(n) ==
    [enabled |-> FALSE, byTitle |-> NoEntry, byPath |-> [i \in 1..n |-> NoEntry],
     byIMDb |-> NoEntry, byTVDb |-> NoEntry]

\* config.UseRadarr / config.UseSonarr and the answers for an item of n files
ArrStates(n) ==
    {ArrDisabled(n)} \cup
    [enabled : {TRUE}, byTitle : ArrAnswers, byPath : [1..n -> ArrAnswers],
     byIMDb : ArrAnswers, byTVDb : ArrAnswers]

MovieInputs ==
    UNION { [mediaType : {"movie"}, item : {it}, arr : { a \in ArrStates(Len(it.files)) : a.byTVDb = NoEntry },
             episodesOK : {<<TRUE, TRUE>>}] : it \in ResolveItems }

TVInputs ==
    UNION { [mediaType : {"tv"}, item : {it}, arr : ArrStates(Len(it.files)),
             episodesOK : BOOLEAN \X BOOLEAN] : it \in ResolveItems }

InitResolve ==
    /\ input \in MovieInputs \cup TVInputs
    /\ output = <<>>
    /\ EngineIdle /\ FetchIdle /\ FlushIdle

\* extractTMDbID, case MediaTypeMovie
ResolveMovie ==
    /\ output = <<>>
    /\ input.mediaType = "movie"
    /\ output' = <<extractMovieTMDbID(input.item, input.arr)>>
    /\ UNCHANGED <<input, engineVars, fetchVars, flushVars>>

\* extractTMDbID, case MediaTypeTV
ResolveTVShow ==
    /\ output = <<>>
    /\ input.mediaType = "tv"
    /\ output' = <<extractTVShowTMDbID(input.item, input.arr, input.episodesOK)>>
    /\ UNCHANGED <<input, engineVars, fetchVars, flushVars>>

NextResolve == ResolveMovie \/ ResolveTVShow

SpecResolve == InitResolve /\ [][NextResolve]_vars

\* the item carries no embedded tmdb identifier
NoEmbeddedID(in) ==
    IF in.mediaType = "movie" THEN movieGuidIndex(in.item.guids) = 0
    ELSE tvGuidIndex(in.item.guids) = 0

\* one of the file paths the resolver can see matches the extractor grammar
SomePathMatches(in) ==
    /\ in.mediaType = "tv" => in.episodesOK[2]
    /\ \E i \in 1..Len(in.item.files) : ExtractTMDbIDFromPath(in.item.files[i]) # <<>>

\* C6: an item without embedded identifier, one of whose file paths matches
\* the extractor grammar, resolves to a non-absent identifier, whatever the
\* secondary catalog answers.
C6_PathMatchAlwaysResolves ==
    (output # <<>> /\ NoEmbeddedID(input) /\ SomePathMatches(input))
        => output[1].id # <<>>

---------------------------------------------------------------------------
(* SpecFetch: one call of Client.GetMovieKeywords or                        *)
(* Client.GetTVShowKeywords (internal/tmdb/client.go), step by step.  The   *)
(* provider chooses the answer to every request.                            *)

\* the requests counted before the count saturates; the count is an
\* observation, the client itself keeps none
MaxAttempts == 3

StatusOK == 200
StatusUnauthorized == 401
StatusTooManyRequests == 429

\* the statuses the provider answers with
Statuses == {StatusOK, StatusUnauthorized, 404, StatusTooManyRequests, 500, 503}

NoKeywords == <<>>

FetchState(mediaType, pc, attempts, depth, status, raw, result, err) ==
    [mediaType |-> mediaType,  \* which of the two functions runs
     pc        |-> pc,         \* "request", "sleep", "read", "parse" or "done"
     attempts  |-> attempts,   \* requests sent so far, saturating at MaxAttempts
     depth     |-> depth,      \* recursive calls in progress, saturating at MaxAttempts
     status    |-> status,     \* status of the last response, 0 before the first
     raw       |-> raw,        \* keyword names of the response body
     result    |-> result,     \* the keywords returned
     err       |-> err]        \* the error returned, "" when none

Saturating(n) == IF n < MaxAttempts THEN n + 1 ELSE MaxAttempts

InitFetch ==
    /\ fetch \in { FetchState(t, "request", 0, 0, 0, NoKeywords, NoKeywords, "") :
                     t \in {"movie", "tv"} }
    /\ PureIdle /\ EngineIdle /\ FlushIdle

Returns(err, result) ==
    fetch' = [fetch EXCEPT !.pc = "done", !.err = err, !.result = result]

\* httpClient.Do fails: the call returns the error
RequestFails ==
    /\ fetch.pc = "request"
    /\ fetch' = [fetch EXCEPT !.pc = "done", !.err = "failed to fetch keywords",
                              !.attempts = Saturating(@)]
    /\ UNCHANGED <<pureVars, engineVars, flushVars>>

\* httpClient.Do returns a response with status 429: the client sleeps
RequestLimited ==
    /\ fetch.pc = "request"
    /\ fetch' = [fetch EXCEPT !.pc = "sleep", !.status = StatusTooManyRequests,
                              !.attempts = Saturating(@)]
    /\ UNCHANGED <<pureVars, engineVars, flushVars>>

\* time.Sleep(1 * time.Second) is over: the function calls itself
SleepAndRecurse ==
    /\ fetch.pc = "sleep"
    /\ fetch' = [fetch EXCEPT !.pc = "request", !.depth = Saturating(@)]
    /\ UNCHANGED <<pureVars, engineVars, flushVars>>

\* a response with another status than 200 and 429: the call returns an error
RequestRejected ==
    /\ fetch.pc = "request"
    /\ \E s \in Statuses \ {StatusOK, StatusTooManyRequests} :
          fetch' = [fetch EXCEPT
                      !.pc = "done", !.status = s, !.attempts = Saturating(@),
                      !.err = IF s = StatusUnauthorized
                              THEN "tmdb API authentication failed"
                              ELSE "tmdb API returned status"]
    /\ UNCHANGED <<pureVars, engineVars, flushVars>>

\* a response with status 200: the body is read next
RequestAnswered ==
    /\ fetch.pc = "request"
    /\ fetch' = [fetch EXCEPT !.pc = "read", !.status = StatusOK,
                              !.attempts = Saturating(@)]
    /\ UNCHANGED <<pureVars, engineVars, flushVars>>

\* io.ReadAll fails
ReadFails ==
    /\ fetch.pc = "read"
    /\ Returns("failed to read response body", NoKeywords)
    /\ UNCHANGED <<pureVars, engineVars, flushVars>>

\* io.ReadAll succeeds
ReadBody ==
    /\ fetch.pc = "read"
    /\ fetch' = [fetch EXCEPT !.pc = "parse"]
    /\ UNCHANGED <<pureVars, engineVars, flushVars>>

\* json.Unmarshal fails
ParseFails ==
    /\ fetch.pc = "parse"
    /\ Returns("failed to parse keywords response", NoKeywords)
    /\ UNCHANGED <<pureVars, engineVars, flushVars>>

\* json.Unmarshal succeeds: the keyword names are normalized and returned
ParseBody ==
    /\ fetch.pc = "parse"
    /\ \E raw \in SeqsUpTo(RawKeywordPool, MaxRawKeywords) :
          fetch' = [fetch EXCEPT !.pc = "done", !.raw = raw,
                                 !.result = NormalizeKeywords(raw)]
    /\ UNCHANGED <<pureVars, engineVars, flushVars>>

NextFetch ==
    \/ RequestFails \/ RequestLimited \/ SleepAndRecurse \/ RequestRejected
    \/ RequestAnswered \/ ReadFails \/ ReadBody \/ ParseFails \/ ParseBody

\* The call runs in one goroutine that goes on to its next statement
\* whenever it has one.
SpecFetch == InitFetch /\ [][NextFetch]_vars /\ WF_vars(NextFetch)

\* C7: a keyword fetch terminates: it ends with keywords or with an error,
\* also when the provider answers every request with status 429 or 5xx.
C7_FetchTerminates == <>(fetch.pc = "done")

---------------------------------------------------------------------------
(* The export accumulator (internal/export/export.go).  An export file is   *)
(* named by <<library directory, file name>>; the export location on disk   *)
(* is a function from the names of the files that exist to their lines.     *)

InvalidChars == {"/", "\\", ":", "*", "?", "\"", "<", ">", "|"}

\* sanitizeFilename: every invalid character becomes "_", then TrimSpace
sanitizeFilename(filename) ==
    TrimSpace([i \in 1..Len(filename) |->
                 IF filename[i] \in InvalidChars THEN "_" ELSE filename[i]])

\* the key under which a label is compared: trimmed, lower case
labelKey(label) == ToLower(TrimSpace(label))

\* matchingLabels comparing the labels as written, without ToLower
matchingLabelsCaseSensitive(exportLabels, itemLabels) ==
    SelectSeq(exportLabels,
              LAMBDA x : TrimSpace(x) \in { TrimSpace(itemLabels[i]) : i \in DOMAIN itemLabels })

\* matchingLabels of ExportItemWithSizes: the export labels the item carries
matchingLabels(exportLabels, itemLabels) ==
    SelectSeq(exportLabels,
              LAMBDA x : labelKey(x) \in { labelKey(itemLabels[i]) : i \in DOMAIN itemLabels })

\* a library's empty bucket map; a label without bucket reads as no entry
EmptyBuckets(exportLabels) == [l \in Range(exportLabels) |-> <<>>]

\* SetCurrentLibrary, the accumulation after it: the library gets its map
\* unless the name is empty or its directory cannot be created
registerLibrary(acc, exportLabels, libraryName, mkdirOK) ==
    LET name == sanitizeFilename(libraryName)
    IN  IF libraryName = <<>> \/ ~mkdirOK \/ name \in DOMAIN acc THEN acc
        ELSE (name :> EmptyBuckets(exportLabels)) @@ acc

\* SetCurrentLibrary, the current library after it
currentLibraryAfter(current, libraryName) ==
    IF libraryName = <<>> THEN current ELSE sanitizeFilename(libraryName)

\* the loop over matchingLabels appends the files once for every occurrence
\* of a label in the list
RECURSIVE appendedTimes(_, _)
appendedTimes(fileInfos, n) ==
    IF n = 0 THEN <<>> ELSE fileInfos \o appendedTimes(fileInfos, n - 1)

\* ExportItemWithSizes, the accumulation after it: the files are appended to
\* the bucket of every matching label of the current library
ExportItemWithSizes(acc, current, exportLabels, itemLabels, fileInfos) ==
    LET matching == matchingLabels(exportLabels, itemLabels)
        buckets  == IF current \in DOMAIN acc THEN acc[current]
                    ELSE EmptyBuckets(exportLabels)
    IN  IF fileInfos = <<>> \/ current = <<>> \/ matching = <<>> THEN acc
        ELSE (current :> [l \in Range(exportLabels) |->
                            buckets[l] \o appendedTimes(fileInfos,
                                Cardinality({ i \in 1..Len(matching) : matching[i] = l }))])
             @@ acc

\* the file of a label in a library directory, and the summary file
ExportFile(library, label) == <<library, sanitizeFilename(label) \o <<".","t","x","t">>>>
SummaryFile == <<<<>>, <<"s","u","m","m","a","r","y",".","t","x","t">>>>

\* the steps of flushTxt over the libraries in the order the map iteration
\* yields them: per library MkdirAll, per label os.Create and one Fprintf
\* per accumulated path; then writeSummary
FlushStep(op, file, line) == [op |-> op, file |-> file, line |-> line]

\* labelSteps creating no file for a label without accumulated entry
RECURSIVE labelStepsSkippingEmpty(_, _, _, _)
labelStepsSkippingEmpty(acc, exportLabels, library, i) ==
    IF i > Len(exportLabels) THEN <<>>
    ELSE LET fileInfos == acc[library][exportLabels[i]]
             file      == ExportFile(library, exportLabels[i])
         IN  (IF fileInfos = <<>> THEN <<>> ELSE <<FlushStep("create", file, <<>>)>>)
             \o [k \in 1..Len(fileInfos) |-> FlushStep("write", file, fileInfos[k])]
             \o labelStepsSkippingEmpty(acc, exportLabels, library, i + 1)

RECURSIVE labelSteps(_, _, _, _)
labelSteps(acc, exportLabels, library, i) ==
    IF i > Len(exportLabels) THEN <<>>
    ELSE LET fileInfos == acc[library][exportLabels[i]]
             file      == ExportFile(library, exportLabels[i])
         IN  <<FlushStep("create", file, <<>>)>>
             \o [k \in 1..Len(fileInfos) |-> FlushStep("write", file, fileInfos[k])]
             \o labelSteps(acc, exportLabels, library, i + 1)

RECURSIVE librarySteps(_, _, _, _)
librarySteps(acc, exportLabels, order, i) ==
    IF i > Len(order) THEN <<>>
    ELSE <<FlushStep("mkdir", <<order[i], <<>>>>, <<>>)>>
         \o labelSteps(acc, exportLabels, order[i], 1)
         \o librarySteps(acc, exportLabels, order, i + 1)

flushTxtSteps(acc, exportLabels, order) ==
    librarySteps(acc, exportLabels, order, 1)
    \o <<FlushStep("summary", SummaryFile, <<>>)>>

\* the steps of flushJSON: os.Create of export.json and one Encode
JSONFile == <<<<>>, <<"e","x","p","o","r","t",".","j","s","o","n">>>>

flushJSONSteps(acc) ==
    <<FlushStep("create", JSONFile, <<>>), FlushStep("encode", JSONFile, <<"{","l","i","b","r","a","r","i","e","s","}">>)>>

\* FlushAll: the steps of the configured export mode
ExportModes == {"txt", "json"}

flushAllSteps(mode, acc, exportLabels, order) ==
    IF mode = "txt" THEN flushTxtSteps(acc, exportLabels, order) ELSE flushJSONSteps(acc)

\* the export location after one step: os.Create truncates or creates the
\* file, Fprintf appends a line, writeSummary rewrites summary.txt
applyFlushStep(files, step) ==
    CASE step.op = "mkdir"   -> files
      [] step.op = "create"  -> (step.file :> <<>>) @@ files
      [] step.op = "write"   -> [files EXCEPT ![step.file] = Append(@, step.line)]
      [] step.op = "summary" -> (step.file :> <<<<"L","a","b","e","l","a","r","r"," ","E","x","p","o","r","t"," ","S","u","m","m","a","r","y">>>>) @@ files
      [] step.op = "encode"  -> [files EXCEPT ![step.file] = Append(@, step.line)]

\* the export location after the first n steps
RECURSIVE afterSteps(_, _, _)
afterSteps(files, steps, n) ==
    IF n = 0 THEN files
    ELSE applyFlushStep(afterSteps(files, steps, n - 1), steps[n])

\* the orders in which a range over the accumulation may yield its libraries
Orders(acc) ==
    { o \in SeqsUpTo(DOMAIN acc, Cardinality(DOMAIN acc)) :
        Len(o) = Cardinality(DOMAIN acc) /\ Range(o) = DOMAIN acc }

NoFiles == <<>>
NoAccumulation == <<>>

---------------------------------------------------------------------------
(* SpecFlush: one call of Exporter.FlushAll, step by step.                  *)
(* Every step that touches the disk may fail, and the process may be        *)
(* stopped between any two steps.                                           *)

FlushLabels == <<<<"A","c","t","i","o","n">>, <<"4","K">>>>

FlushLibraries == { <<"M","o","v","i","e","s">>, <<"T","V","_","A","n","i","m","e">> }

FlushBuckets == { <<>>, <<<<"/","m","/","a",".","m","k","v">>, <<"/","m","/","b",".","m","k","v">>>> }

\* what a pass has accumulated
FlushAccumulations ==
    UNION { [libs -> [Range(FlushLabels) -> FlushBuckets]] :
              libs \in (SUBSET FlushLibraries) \ {{}} }

\* what the flush of the previous pass left on disk: nothing, or the files
\* of a pass in which every library had one file under every label
PreviousFiles ==
    { NoFiles,
      LET acc == [lib \in FlushLibraries |-> [l \in Range(FlushLabels) |-> <<<<"/","m","/","a",".","m","k","v">>>>]]
          steps == flushTxtSteps(acc, FlushLabels, CHOOSE o \in Orders(acc) : TRUE)
      IN  afterSteps(NoFiles, steps, Len(steps)) }

InitFlush ==
    /\ \E acc \in FlushAccumulations, prev \in PreviousFiles, mode \in ExportModes :
       \E order \in Orders(acc) :
          flush = [accumulated |-> acc,
                   mode        |-> mode,
                   steps       |-> flushAllSteps(mode, acc, FlushLabels, order),
                   done        |-> 0,          \* steps carried out
                   files       |-> prev,       \* the export location now
                   before      |-> prev,       \* the export location at the call
                   result      |-> "running"]  \* "running", "ok" or "error"
    /\ PureIdle /\ EngineIdle /\ FetchIdle

\* the next step succeeds
FlushStepOK ==
    /\ flush.result = "running"
    /\ flush.done < Len(flush.steps)
    /\ flush' = [flush EXCEPT !.done = @ + 1,
                              !.files = applyFlushStep(@, flush.steps[flush.done + 1])]
    /\ UNCHANGED <<pureVars, engineVars, fetchVars>>

\* the next step fails and the accumulation is cleared all the same
FlushStepFailsAndClears ==
    /\ flush.result = "running"
    /\ flush.done < Len(flush.steps)
    /\ flush' = [flush EXCEPT !.result = "error", !.accumulated = NoAccumulation]
    /\ UNCHANGED <<pureVars, engineVars, fetchVars>>

\* the next step fails: flushTxt returns the error, the accumulation stays
FlushStepFails ==
    /\ flush.result = "running"
    /\ flush.done < Len(flush.steps)
    /\ flush' = [flush EXCEPT !.result = "error"]
    /\ UNCHANGED <<pureVars, engineVars, fetchVars>>

\* all steps done: the accumulation is cleared and flushTxt returns nil
FlushReturns ==
    /\ flush.result = "running"
    /\ flush.done = Len(flush.steps)
    /\ flush' = [flush EXCEPT !.result = "ok", !.accumulated = NoAccumulation]
    /\ UNCHANGED <<pureVars, engineVars, fetchVars>>

NextFlush == FlushStepOK \/ FlushStepFails \/ FlushReturns

SpecFlush == InitFlush /\ [][NextFlush]_vars

\* C9: a flush is all-or-nothing on disk: as long as it has not returned
\* success, also after it failed, every file the previous flush left is
\* intact and every other export file holds all the entries accumulated for
\* its library and label.
C9_FlushAllOrNothing ==
    flush.result # "ok" =>
        /\ \A f \in DOMAIN flush.before :
              f \in DOMAIN flush.files /\ flush.files[f] = flush.before[f]
        /\ \A lib \in DOMAIN flush.accumulated, l \in Range(FlushLabels) :
              LET f == ExportFile(lib, l)
              IN  f \in (DOMAIN flush.files) \ (DOMAIN flush.before)
                    => flush.files[f] = flush.accumulated[lib][l]

---------------------------------------------------------------------------
(* The synchronization engine: Processor.ProcessAllItems (package media),   *)
(* Storage (internal/storage/storage.go) and the periodic loop of           *)
(* handleNormalMode.                                                        *)

\* passes made before the timer is no longer followed
MaxPasses == 2
\* failures of calls and disk operations injected in one behaviour
MaxFailures == 1

\* The catalog: one movie library with an item that carries a tmdb GUID and
\* an item without any identifier, and one series library with an item
\* whose identifier is in its episode paths.
Items ==
    [m1 |-> [guids |-> <<<<"t","m","d","b",":","/","/","6","0","3">>>>, files |-> <<<<"/","m","/","a",".","m","k","v">>>>],
     m2 |-> [guids |-> <<>>,              files |-> <<<<"/","m","/","b",".","m","k","v">>>>],
     s1 |-> [guids |-> <<>>,              files |-> <<<<"/","t","/","s"," ","[","t","m","d","b","-","1","3","9","9","]","/","e",".","m","k","v">>>>]]

ItemIDs == DOMAIN Items

Libraries ==
    << [title |-> <<"M","o","v","i","e","s">>,   mediaType |-> "movie", items |-> <<"m1", "m2">>],
       [title |-> <<"T","V","/","A","n","i","m","e">>, mediaType |-> "tv",    items |-> <<"s1">>] >>

\* the keyword names the provider holds for an identifier
ProviderKeywords(tmdbID) ==
    IF tmdbID = <<"6","0","3">> THEN <<<<"s","c","i","-","f","i">>, <<"a","c","t","i","o","n">>>> ELSE <<<<"a","c","t","i","o","n">>>>

ExportLabels == <<<<"A","c","t","i","o","n">>, <<"4","K">>>>

\* config.Config: FORCE_UPDATE, UPDATE_FIELD, whether an export location is
\* configured (the exporter exists exactly then) and DATA_DIR
ConfigsWith(dataDirs) ==
    [ForceUpdate : BOOLEAN, UpdateField : {"label", "genre"}, export : BOOLEAN,
     DataDir : dataDirs]

\* DATA_DIR with its default
Configs == ConfigsWith({"/data"})

\* storage.ProcessedItem, and what Get returns for a key without entry
NoRecord == [exists |-> FALSE, synced |-> FALSE, field |-> "", tmdbID |-> <<>>]

ProcessedItem(tmdbID, updateField) ==
    [exists |-> TRUE, synced |-> TRUE, field |-> updateField, tmdbID |-> tmdbID]

\* the values of the configured field on a fresh catalog and on a catalog
\* the keywords were applied to
FreshTags   == [m1 |-> <<<<"s","c","i","-","f","i">>, <<"4","K">>>>, m2 |-> <<<<"4","K">>>>, s1 |-> <<>>]
AppliedTags == [m1 |-> <<<<"4","K">>, <<"S","c","i","-","F","i">>, <<"A","c","t","i","o","n">>>>, m2 |-> <<<<"4","K">>>>,
                s1 |-> <<<<"A","c","t","i","o","n">>>>]

\* processed_items.json as an earlier run left it: absent, or one record per
\* item that has an identifier, written under either field
StoredBy(updateField) ==
    [m1 |-> ProcessedItem(<<"6","0","3">>, updateField), m2 |-> NoRecord,
     s1 |-> ProcessedItem(<<"1","3","9","9">>, updateField)]

NoStorage == [i \in ItemIDs |-> NoRecord]

InitialCatalogs ==
    { <<FreshTags, NoStorage>>, <<AppliedTags, NoStorage>>,
      <<AppliedTags, StoredBy("label")>>, <<AppliedTags, StoredBy("genre")>> }

\* the skip test of ProcessAllItems on what Storage.Get returned
alreadySyncedFieldInverted(processed, config) ==
    /\ processed.exists /\ processed.synced
    /\ processed.field # config.UpdateField
    /\ ~config.ForceUpdate

alreadySyncedAnyField(processed, config) ==
    /\ processed.exists /\ processed.synced
    /\ ~config.ForceUpdate

alreadySynced(processed, config) ==
    /\ processed.exists /\ processed.synced
    /\ processed.field = config.UpdateField
    /\ ~config.ForceUpdate

\* allKeywordsExist: every keyword is, ignoring case, a current value
allKeywordsExist(currentValues, keywords) ==
    \A k \in DOMAIN keywords :
        ToLower(keywords[k]) \in { ToLower(currentValues[i]) : i \in DOMAIN currentValues }

\* the test of the "already has all keywords" skip
hasAllSkipIgnoringForce(currentValues, keywords, config) ==
    allKeywordsExist(currentValues, keywords)

hasAllSkipWhenForced(currentValues, keywords, config) ==
    allKeywordsExist(currentValues, keywords) /\ config.ForceUpdate

hasAllSkip(currentValues, keywords, config) ==
    allKeywordsExist(currentValues, keywords) /\ ~config.ForceUpdate

\* extractTMDbID; Radarr and Sonarr are not configured.  episodesOK tells
\* whether GetTVShowEpisodes succeeds.
extractTMDbID(item, mediaType, episodesOK) ==
    IF mediaType = "movie"
    THEN extractMovieTMDbID(item, ArrDisabled(Len(item.files))).id
    ELSE extractTVShowTMDbID(item, ArrDisabled(Len(item.files)), <<TRUE, episodesOK>>).id

\* whether extractTMDbID lists the episodes of the item
ListsEpisodes(item, mediaType) == mediaType = "tv" /\ tvGuidIndex(item.guids) = 0

\* Storage.Set: the entry is put into the map, then the whole map is saved
\* (temporary file, then rename); when the save fails the file stays
SetData(data, ratingKey, processedItem) == [data EXCEPT ![ratingKey] = processedItem]

SavedFile(file, data, saveOK) == IF saveOK THEN data ELSE file

\* what one loop iteration did
Observation(item, branch, processed, prior, tmdbID, fetched, keywords, details, currentValues, updateCalled) ==
    [item          |-> item,          \* the rating key
     branch        |-> branch,        \* how the iteration ended
     processed     |-> processed,     \* what Storage.Get returned
     prior         |-> prior,         \* what the item's previous visit did
     tmdbID        |-> tmdbID,        \* what extractTMDbID returned
     fetched       |-> fetched,       \* getKeywords: "no call", "ok" or "failed"
     keywords      |-> keywords,      \* the keywords it returned
     details       |-> details,       \* getItemDetails: "no call", "ok" or "failed"
     currentValues |-> currentValues, \* the values of the field it returned
     updateCalled  |-> updateCalled]  \* syncFieldWithKeywords was called

\* what the most recent visit of an item did: the pass, how the iteration
\* ended, what Storage.Set returned and whether the reads made for the
\* export succeeded ("no call" when none was made)
NoVisit == [pass |-> 0, branch |-> "none", saved |-> "no call", read |-> "no call"]

Visit(n, branch, saved, read) == [pass |-> n, branch |-> branch, saved |-> saved, read |-> read]

Outcome(ok) == IF ok THEN "ok" ELSE "failed"

NoObservation ==
    Observation("", "none", NoRecord, NoVisit, <<>>, "no call", <<>>, "no call", <<>>, FALSE)

\* the failures so far: of all calls and disk operations, of the calls of
\* syncFieldWithKeywords among them, and both numbers as they were when the
\* pass in progress began and when the pass before it began
NoFailuresYet == [calls |-> 0, updates |-> 0]

NoFailures ==
    [calls |-> 0, updates |-> 0, atStart |-> NoFailuresYet, atPrevious |-> NoFailuresYet]

NoCounters == [newItems |-> 0, updatedItems |-> 0, skippedItems |-> 0,
               skippedAlreadyExist |-> 0]

\* NewProcessor: the store is loaded from the document when DATA_DIR is set;
\* main then enters the mode REMOVE selects
InitWith(configs, mode) ==
    /\ cfg \in configs
    /\ \E c \in InitialCatalogs :
          /\ plexTags = c[1]
          /\ storageData = IF cfg.DataDir # "" THEN c[2] ELSE NoStorage
          /\ storageFile = c[2]
    /\ accumulated = NoAccumulation
    /\ currentLibrary = <<>>
    /\ exportFiles = NoFiles
    /\ phase = mode
    /\ pass = 1
    /\ cursor = [lib |-> 1, item |-> 1]
    /\ counters = NoCounters
    /\ last = NoObservation
    /\ visited = [i \in ItemIDs |-> NoVisit]
    /\ failures = NoFailures
    /\ PureIdle /\ FetchIdle /\ FlushIdle

Init == InitWith(Configs, "library")

\* the library and the item the loop is at
CurrentLib  == Libraries[cursor.lib]
CurrentItem == CurrentLib.items[cursor.item]
InLoop      == phase = "items" /\ cursor.item <= Len(CurrentLib.items)

\* a call or disk operation that fails uses up one of the failures injected
Cost(ok) == IF ok THEN 0 ELSE 1

Inject(n) ==
    /\ failures.calls + n <= MaxFailures
    /\ failures' = [failures EXCEPT !.calls = @ + n]

\* the same for a call of syncFieldWithKeywords that fails
InjectUpdateFailure ==
    /\ failures.calls + 1 <= MaxFailures
    /\ failures' = [failures EXCEPT !.calls = @ + 1, !.updates = @ + 1]

\* extractFileInfos: the files of the item
extractFileInfos(ratingKey) == SelectSeq(Items[ratingKey].files, LAMBDA f : f # <<>>)

\* the export of an iteration: when an exporter exists and the details and
\* the files could be read, the item is handed to ExportItemWithSizes
Exported(readOK, itemLabels) ==
    IF cfg.export /\ readOK
    THEN ExportItemWithSizes(accumulated, currentLibrary, ExportLabels, itemLabels,
                             extractFileInfos(CurrentItem))
    ELSE accumulated

\* what the reads made for the export returned
ExportRead(readOK) == IF cfg.export THEN Outcome(readOK) ELSE "no call"

\* the reads an export needs are made only when an exporter exists
ReadOutcomes(canFail) == IF cfg.export /\ canFail THEN BOOLEAN ELSE {TRUE}

\* the outcomes of GetTVShowEpisodes inside extractTMDbID
EpisodeOutcomes ==
    IF ListsEpisodes(Items[CurrentItem], CurrentLib.mediaType) THEN BOOLEAN ELSE {TRUE}

\* the end of an iteration: the counters, the observations, the next item
Iterated(branch, saved, read, tmdbID, fetched, keywords, details, currentValues, updateCalled, new, updated, skipped, skippedExist) ==
    /\ counters' = [newItems            |-> counters.newItems + new,
                    updatedItems        |-> counters.updatedItems + updated,
                    skippedItems        |-> counters.skippedItems + skipped,
                    skippedAlreadyExist |-> counters.skippedAlreadyExist + skippedExist]
    /\ last' = Observation(CurrentItem, branch, storageData[CurrentItem],
                           visited[CurrentItem], tmdbID, fetched, keywords, details,
                           currentValues, updateCalled)
    /\ visited' = [visited EXCEPT ![CurrentItem] = Visit(pass, branch, saved, read)]
    /\ cursor' = [cursor EXCEPT !.item = @ + 1]
    /\ UNCHANGED <<cfg, currentLibrary, exportFiles, phase, pass>>
    /\ UNCHANGED <<pureVars, fetchVars, flushVars>>

\* part_003:159-164: the item has a synced record for the configured field
SkipAlreadySynced ==
    /\ InLoop
    /\ alreadySynced(storageData[CurrentItem], cfg)
    /\ Inject(0)
    /\ Iterated("already synced", "no call", "no call", <<>>, "no call", <<>>, "no call", <<>>,
                FALSE, 0, 0, 1, 1)
    /\ UNCHANGED <<plexTags, storageData, storageFile, accumulated>>

\* part_003:167-194: no identifier; the item is still exported
SkipNoTMDbID ==
    /\ InLoop
    /\ ~alreadySynced(storageData[CurrentItem], cfg)
    /\ \E episodesOK \in EpisodeOutcomes, readOK \in ReadOutcomes(TRUE) :
          /\ extractTMDbID(Items[CurrentItem], CurrentLib.mediaType, episodesOK) = <<>>
          /\ Inject(Cost(episodesOK) + Cost(readOK))
          /\ accumulated' = Exported(readOK, plexTags[CurrentItem])
          /\ Iterated("no id", "no call", ExportRead(readOK), <<>>, "no call", <<>>,
                      "no call", <<>>, FALSE, 0, 0, 1, 0)
    /\ UNCHANGED <<plexTags, storageData, storageFile>>

\* the identifier of the item when extractTMDbID finds one
ResolvedID == extractTMDbID(Items[CurrentItem], CurrentLib.mediaType, TRUE)

\* the iteration gets as far as getKeywords
Resolves ==
    /\ InLoop
    /\ ~alreadySynced(storageData[CurrentItem], cfg)
    /\ ResolvedID # <<>>

\* what getKeywords returns when it succeeds
getKeywords(tmdbID) == NormalizeKeywords(ProviderKeywords(tmdbID))

SkipKeywordsFailedAborts ==
    /\ Resolves
    /\ Inject(1)
    /\ counters' = [counters EXCEPT !.skippedItems = @ + 1]
    /\ last' = Observation(CurrentItem, "keywords failed", storageData[CurrentItem],
                           visited[CurrentItem], ResolvedID, "failed", <<>>, "no call",
                           <<>>, FALSE)
    /\ visited' = [visited EXCEPT
                      ![CurrentItem] = Visit(pass, "keywords failed", "no call", "no call")]
    /\ cursor' = [cursor EXCEPT !.item = Len(CurrentLib.items) + 1]
    /\ UNCHANGED <<cfg, currentLibrary, exportFiles, phase, pass>>
    /\ UNCHANGED <<pureVars, fetchVars, flushVars>>
    /\ UNCHANGED <<plexTags, storageData, storageFile, accumulated>>

\* part_003:197-204: getKeywords fails
SkipKeywordsFailed ==
    /\ Resolves
    /\ Inject(1)
    /\ \E tmdbID \in {ResolvedID} :
          Iterated("keywords failed", "no call", "no call", tmdbID, "failed", <<>>, "no call", <<>>,
                   FALSE, 0, 0, 1, 0)
    /\ UNCHANGED <<plexTags, storageData, storageFile, accumulated>>

\* getItemDetails fails and the item is counted nowhere
SkipDetailsFailedUncounted ==
    /\ Resolves
    /\ Inject(1)
    /\ \E tmdbID \in {ResolvedID} : \E keywords \in {getKeywords(tmdbID)} :
          Iterated("details failed", "no call", "no call", tmdbID, "ok", keywords,
                   "failed", <<>>, FALSE, 0, 0, 0, 0)
    /\ UNCHANGED <<plexTags, storageData, storageFile, accumulated>>

\* part_003:210-217: getItemDetails fails
SkipDetailsFailed ==
    /\ Resolves
    /\ Inject(1)
    /\ \E tmdbID \in {ResolvedID} : \E keywords \in {getKeywords(tmdbID)} :
          Iterated("details failed", "no call", "no call", tmdbID, "ok", keywords,
                   "failed", <<>>, FALSE, 0, 0, 1, 0)
    /\ UNCHANGED <<plexTags, storageData, storageFile, accumulated>>

\* part_003:238-270: every keyword is there already; the item is exported
SkipHasAllKeywords ==
    /\ Resolves
    /\ \E tmdbID \in {ResolvedID} : \E keywords \in {getKeywords(tmdbID)} :
       \E currentValues \in {plexTags[CurrentItem]} :
          /\ hasAllSkip(currentValues, keywords, cfg)
          /\ \E readOK \in ReadOutcomes(CurrentLib.mediaType = "tv") :
                /\ Inject(Cost(readOK))
                /\ accumulated' = Exported(readOK, currentValues)
                /\ Iterated("has all", "no call", ExportRead(readOK), tmdbID, "ok",
                            keywords, "ok", currentValues, FALSE, 0, 0, 1, 1)
    /\ UNCHANGED <<plexTags, storageData, storageFile>>

\* part_003:301-309: syncFieldWithKeywords fails
UpdateFails ==
    /\ Resolves
    /\ InjectUpdateFailure
    /\ \E tmdbID \in {ResolvedID} : \E keywords \in {getKeywords(tmdbID)} :
       \E currentValues \in {plexTags[CurrentItem]} :
          /\ ~hasAllSkip(currentValues, keywords, cfg)
          /\ Iterated("update failed", "no call", "no call", tmdbID, "ok", keywords, "ok",
                      currentValues, TRUE, 0, 0, 1, 0)
    /\ UNCHANGED <<plexTags, storageData, storageFile, accumulated>>

UpdateSucceedsWithoutTrace ==
    /\ Resolves
    /\ \E tmdbID \in {ResolvedID} : \E keywords \in {getKeywords(tmdbID)} :
       \E currentValues \in {plexTags[CurrentItem]} :
          /\ ~hasAllSkip(currentValues, keywords, cfg)
          /\ Inject(0)
          /\ Iterated("updated", "ok", "no call", tmdbID, "ok", keywords, "ok",
                      currentValues, TRUE, 1, 0, 0, 0)
    /\ UNCHANGED <<plexTags, storageData, storageFile, accumulated>>

\* part_003:301-365: syncFieldWithKeywords puts the cleaned values on the
\* item, the item is exported with its new values, the record is stored
UpdateSucceeds ==
    /\ Resolves
    /\ \E tmdbID \in {ResolvedID} : \E keywords \in {getKeywords(tmdbID)} :
       \E currentValues \in {plexTags[CurrentItem]} :
          /\ ~hasAllSkip(currentValues, keywords, cfg)
          /\ \E cleanedValues \in {CleanDuplicateKeywords(currentValues, keywords)} :
             \E readOK \in ReadOutcomes(TRUE), saveOK \in BOOLEAN, exists \in {storageData[CurrentItem].exists} :
                /\ Inject(Cost(readOK) + Cost(saveOK))
                /\ plexTags' = [plexTags EXCEPT ![CurrentItem] = cleanedValues]
                /\ accumulated' = Exported(readOK, cleanedValues)
                /\ storageData' = SetData(storageData, CurrentItem,
                                          ProcessedItem(tmdbID, cfg.UpdateField))
                /\ storageFile' = SavedFile(storageFile, storageData', saveOK)
                /\ Iterated("updated", Outcome(saveOK), ExportRead(readOK),
                            tmdbID, "ok", keywords, "ok", currentValues, TRUE,
                            IF exists THEN 0 ELSE 1, IF exists THEN 1 ELSE 0, 0, 0)

\* part_003:94-146: ProcessAllItems registers the library with the exporter
\* and lists its items
BeginLibrary ==
    /\ phase = "library"
    /\ \E mkdirOK \in ReadOutcomes(TRUE) :
          /\ Inject(Cost(mkdirOK))
          /\ accumulated' = IF cfg.export
                            THEN registerLibrary(accumulated, ExportLabels,
                                                 CurrentLib.title, mkdirOK)
                            ELSE accumulated
    /\ currentLibrary' = IF cfg.export
                         THEN currentLibraryAfter(currentLibrary, CurrentLib.title)
                         ELSE currentLibrary
    /\ phase' = "items"
    /\ cursor' = [cursor EXCEPT !.item = 1]
    /\ counters' = NoCounters
    /\ UNCHANGED <<cfg, plexTags, storageData, storageFile, exportFiles, pass, last, visited>>
    /\ UNCHANGED <<pureVars, fetchVars, flushVars>>

\* the library after the current one, or the flush after the last one
Leave ==
    /\ IF cursor.lib < Len(Libraries)
       THEN phase' = "library" /\ cursor' = [lib |-> cursor.lib + 1, item |-> 1]
       ELSE phase' = "flush" /\ cursor' = cursor
    /\ UNCHANGED <<cfg, plexTags, storageData, storageFile, exportFiles, pass, last, visited>>
    /\ UNCHANGED <<pureVars, fetchVars, flushVars>>

\* part_003:114-117: fetchItems fails and ProcessAllItems returns the error,
\* which handleNormalMode prints
FetchItemsFails ==
    /\ phase = "library"
    /\ Inject(1)
    /\ accumulated' = IF cfg.export
                      THEN registerLibrary(accumulated, ExportLabels, CurrentLib.title, TRUE)
                      ELSE accumulated
    /\ currentLibrary' = IF cfg.export
                         THEN currentLibraryAfter(currentLibrary, CurrentLib.title)
                         ELSE currentLibrary
    /\ counters' = NoCounters
    /\ Leave

\* part_003:367-406: the loop is over and ProcessAllItems returns nil
EndLibrary ==
    /\ phase = "items"
    /\ cursor.item > Len(CurrentLib.items)
    /\ Inject(0)
    /\ UNCHANGED <<accumulated, currentLibrary, counters>>
    /\ Leave

\* the pass is over and the loop waits for the timer
Waits ==
    /\ phase' = "wait"
    /\ UNCHANGED <<cfg, plexTags, storageData, storageFile, currentLibrary, pass, cursor,
                   counters, last, visited>>
    /\ UNCHANGED <<pureVars, fetchVars, flushVars>>

\* handleNormalMode without export location: nothing is flushed
NoFlush ==
    /\ phase = "flush"
    /\ ~cfg.export
    /\ Inject(0)
    /\ UNCHANGED <<accumulated, exportFiles>>
    /\ Waits

\* FlushAll succeeds: every step of flushTxt is carried out and the
\* accumulation is cleared
FlushSucceeds ==
    /\ phase = "flush"
    /\ cfg.export
    /\ Inject(0)
    /\ \E order \in Orders(accumulated) :
          LET steps == flushTxtSteps(accumulated, ExportLabels, order)
          IN  exportFiles' = afterSteps(exportFiles, steps, Len(steps))
    /\ accumulated' = NoAccumulation
    /\ Waits

\* FlushAll fails at one of its steps: the steps before it are carried out
\* and the accumulation stays
FlushFails ==
    /\ phase = "flush"
    /\ cfg.export
    /\ Inject(1)
    /\ \E order \in Orders(accumulated) :
          LET steps == flushTxtSteps(accumulated, ExportLabels, order)
          IN  \E n \in 0..(Len(steps) - 1) :
                 exportFiles' = afterSteps(exportFiles, steps, n)
    /\ UNCHANGED accumulated
    /\ Waits

\* the ticker fires and processFunc runs again
Tick ==
    /\ phase = "wait"
    /\ pass < MaxPasses
    /\ failures' = [failures EXCEPT
                       !.atStart = [calls |-> failures.calls, updates |-> failures.updates],
                       !.atPrevious = failures.atStart]
    /\ pass' = pass + 1
    /\ phase' = "library"
    /\ cursor' = [lib |-> 1, item |-> 1]
    /\ UNCHANGED <<cfg, plexTags, storageData, storageFile, accumulated, currentLibrary,
                   exportFiles, counters, last, visited>>
    /\ UNCHANGED <<pureVars, fetchVars, flushVars>>

Next ==
    \/ BeginLibrary \/ FetchItemsFails
    \/ SkipAlreadySynced \/ SkipNoTMDbID \/ SkipKeywordsFailed \/ SkipDetailsFailed
    \/ SkipHasAllKeywords \/ UpdateFails \/ UpdateSucceeds
    \/ EndLibrary \/ NoFlush \/ FlushSucceeds \/ FlushFails \/ Tick

Spec == Init /\ [][Next]_vars

---------------------------------------------------------------------------
(* Properties of the synchronization engine, stated on the observation of   *)
(* the most recent iteration (last) and of each item's most recent visit    *)
(* (visited).                                                               *)

\* the iteration found a synced record written under the configured field
MatchingRecord ==
    /\ last.item # ""
    /\ last.processed.exists /\ last.processed.synced
    /\ last.processed.field = cfg.UpdateField

\* the iteration found a synced record written under the other field
MismatchingRecord ==
    /\ last.item # ""
    /\ last.processed.exists /\ last.processed.synced
    /\ last.processed.field # cfg.UpdateField

\* C1: an item with a synced record whose field is the configured field is,
\* with force mode off, skipped without any call of syncFieldWithKeywords.
C1_SyncedItemNotUpdated ==
    (MatchingRecord /\ ~cfg.ForceUpdate) =>
        /\ last.branch = "already synced"
        /\ ~last.updateCalled

\* an iteration that skipped an item for its matching record
C1_Witness ==
    /\ MatchingRecord /\ ~cfg.ForceUpdate
    /\ last.branch = "already synced"
    /\ last.item = "m1"

\* C2: a synced record whose field differs from the configured field never
\* causes the already-synced skip: the identifier is resolved and, when
\* there is one, the keywords are fetched, as for an item without record.
C2_FieldMismatchNotSkipped ==
    MismatchingRecord =>
        /\ last.branch # "already synced"
        /\ last.branch = "no id" \/ (last.tmdbID # <<>> /\ last.fetched # "no call")

\* an item with a record of the other field whose keywords were fetched,
\* with force mode off
C2_Witness ==
    /\ MismatchingRecord /\ ~cfg.ForceUpdate
    /\ last.processed.field = "genre" /\ cfg.UpdateField = "label"
    /\ last.fetched = "ok"

\* the iteration of a force-mode pass found a matching record, resolved the
\* identifier, fetched keywords and details, and every keyword is a
\* current value already
ForcedWithNothingToAdd ==
    /\ MatchingRecord /\ cfg.ForceUpdate
    /\ last.tmdbID # <<>>
    /\ last.fetched = "ok" /\ last.details = "ok"
    /\ allKeywordsExist(last.currentValues, last.keywords)

\* C3: with force mode on, an item with a matching synced record whose
\* current values already contain every fresh keyword still gets a call of
\* syncFieldWithKeywords, provided its identifier resolves and the keyword
\* fetch and the detail fetch succeed.
C3_ForceModeStillUpdates ==
    ForcedWithNothingToAdd => last.updateCalled

\* a forced update of an item that had every keyword
C3_Witness ==
    /\ ForcedWithNothingToAdd
    /\ last.branch = "updated"
    /\ last.keywords # <<>>

\* C8: when Storage.Set fails after a successful update, the next pass
\* (force mode off) does not treat the item as already synced.
C8_FailedSaveReprocessed ==
    (/\ last.item # ""
     /\ ~cfg.ForceUpdate
     /\ last.prior.branch = "updated"
     /\ last.prior.saved = "failed"
     /\ last.prior.pass = pass - 1)
        => last.branch # "already synced"

\* the library an item belongs to
LibraryOf(ratingKey) ==
    CHOOSE l \in Range(Libraries) : ratingKey \in Range(l.items)

\* the files of the item are in the bucket of the label of its library
Accumulated(ratingKey, label) ==
    LET library == sanitizeFilename(LibraryOf(ratingKey).title)
    IN  /\ library \in DOMAIN accumulated
        /\ Range(extractFileInfos(ratingKey)) \subseteq Range(accumulated[library][label])

\* C10: with export enabled, when the end-of-pass flush runs, every item
\* visited in the pass whose current values contain an export label has its
\* files in the accumulation, whichever branch the item took (visits whose
\* reads for the export failed are left aside).
C10_EveryVisitedItemAccumulated ==
    (phase = "flush" /\ cfg.export) =>
        \A i \in ItemIDs :
            (visited[i].pass = pass /\ visited[i].read # "failed") =>
                \A label \in Range(matchingLabels(ExportLabels, plexTags[i])) :
                    Accumulated(i, label)

---------------------------------------------------------------------------
(* SpecExportOnly: the export-only Processor (the package media variant     *)
(* built without TMDb client, NewProcessor(cfg, plexClient, radarrClient,   *)
(* sonarrClient)), driven by the same handleNormalMode, with DATA_DIR set.  *)
(* Its loop has two branches: the already-synced skip, which exports the    *)
(* item, and the processing branch, which exports the item and stores a     *)
(* record; it never calls syncFieldWithKeywords.                            *)

\* the already-synced skip: the item is exported, nothing is stored
ExportOnlySkip ==
    /\ InLoop
    /\ cfg.DataDir # ""
    /\ alreadySynced(storageData[CurrentItem], cfg)
    /\ \E readOK \in ReadOutcomes(TRUE), currentLabels \in {plexTags[CurrentItem]} :
          /\ Inject(Cost(readOK))
          /\ accumulated' = Exported(readOK, currentLabels)
          /\ Iterated("already synced", "no call", ExportRead(readOK), <<>>, "no call",
                      <<>>, "no call", <<>>, FALSE, 0, 0, 1, 1)
    /\ UNCHANGED <<plexTags, storageData, storageFile>>

\* every other item is exported and gets a record with KeywordsSynced true
\* and without TMDb identifier
ExportOnlyProcess ==
    /\ InLoop
    /\ cfg.DataDir # ""
    /\ ~alreadySynced(storageData[CurrentItem], cfg)
    /\ \E readOK \in ReadOutcomes(TRUE), saveOK \in BOOLEAN :
       \E currentLabels \in {plexTags[CurrentItem]}, exists \in {storageData[CurrentItem].exists} :
          /\ Inject(Cost(readOK) + Cost(saveOK))
          /\ accumulated' = Exported(readOK, currentLabels)
          /\ storageData' = SetData(storageData, CurrentItem,
                                    ProcessedItem(<<>>, cfg.UpdateField))
          /\ storageFile' = SavedFile(storageFile, storageData', saveOK)
          /\ Iterated("processed", Outcome(saveOK), ExportRead(readOK), <<>>, "no call",
                      <<>>, "no call", <<>>, FALSE,
                      IF exists THEN 0 ELSE 1, IF exists THEN 1 ELSE 0, 0, 0)
    /\ UNCHANGED plexTags

NextExportOnly ==
    \/ BeginLibrary \/ FetchItemsFails
    \/ ExportOnlySkip \/ ExportOnlyProcess
    \/ EndLibrary \/ NoFlush \/ FlushSucceeds \/ FlushFails \/ Tick

SpecExportOnly == Init /\ [][NextExportOnly]_vars

\* C11: a record with synced = true is written for an item only after a
\* call of syncFieldWithKeywords for that item succeeded in the same
\* iteration: whenever the record of the item visited last differs from the
\* one Storage.Get returned at the start of its iteration, the iteration
\* made the update call and the call succeeded; the skip branches and a
\* failed update leave the record as it was.
C11_RecordOnlyAfterUpdate ==
    (last.item # "" /\ storageData[last.item] # last.processed) =>
        /\ storageData[last.item].synced
        /\ last.updateCalled
        /\ last.branch = "updated"

---------------------------------------------------------------------------
(* Properties of a pass of the full Processor.                              *)

\* the branches that count the item as skipped
SkipBranches ==
    {"already synced", "no id", "keywords failed", "details failed", "has all",
     "update failed"}

\* the branches in which the resolution, a fetch or the update failed
FailureBranches == {"no id", "keywords failed", "details failed", "update failed"}

\* the positions of the current library the loop has been through
Done == 1..(cursor.item - 1)

\* the pass is through with the library: the loop is at a later library or
\* the pass is at its flush or over
Left(lib) == lib < cursor.lib \/ phase \in {"flush", "wait"}

\* C12: no per-item failure aborts a pass: inside the loop every item before
\* the cursor was visited in this pass and the skip counter is the number of
\* them that ended in a skip branch (an absent identifier, a failed keyword
\* fetch, detail fetch or update among them); and a library the pass has
\* left, one of whose items was visited, had all of its items visited.
C12_ItemFailureDoesNotAbort ==
    /\ phase = "items" =>
          /\ \A k \in Done : visited[CurrentLib.items[k]].pass = pass
          /\ counters.skippedItems =
                Cardinality({ k \in Done :
                                visited[CurrentLib.items[k]].branch \in SkipBranches })
    /\ \A lib \in DOMAIN Libraries :
          (Left(lib) /\ \E i \in Range(Libraries[lib].items) : visited[i].pass = pass)
              => \A i \in Range(Libraries[lib].items) : visited[i].pass = pass

\* a pass in which m1 failed and m2, the item after it, was processed
C12_Witness ==
    /\ visited["m1"].pass = pass /\ visited["m1"].branch \in FailureBranches
    /\ visited["m2"].pass = pass
    /\ Left(1)

---------------------------------------------------------------------------
(* Idempotence of the synchronization across passes.                        *)

\* there was a pass before the one in progress
HasPreviousPass == pass >= 2

\* every call of syncFieldWithKeywords of the previous pass succeeded
PreviousUpdatesSucceeded ==
    HasPreviousPass /\ failures.atStart.updates = failures.atPrevious.updates

\* no call and no disk operation of the previous pass failed
PreviousPassClean ==
    HasPreviousPass /\ failures.atStart.calls = failures.atPrevious.calls

\* the pass in progress has called syncFieldWithKeywords for no item
NoUpdateCallThisPass ==
    \A i \in ItemIDs :
        visited[i].pass = pass => visited[i].branch \notin {"updated", "update failed"}

\* C13 as stated: with force mode off, after a pass in which every catalog
\* update call succeeded, the following pass issues no catalog update call.
C13_NoUpdateAfterSuccessfulUpdates ==
    (~cfg.ForceUpdate /\ PreviousUpdatesSucceeded) => NoUpdateCallThisPass

\* C13 as amended: with force mode off, after a pass in which no call and
\* no disk operation failed, the following pass issues no catalog update
\* call.
C13_NoUpdateAfterCleanPass ==
    (~cfg.ForceUpdate /\ PreviousPassClean) => NoUpdateCallThisPass

\* a second pass, after a clean pass that updated m1, that has been through
\* all the libraries
C13_Witness ==
    /\ ~cfg.ForceUpdate /\ PreviousPassClean
    /\ phase = "flush"
    /\ \A i \in ItemIDs : visited[i].pass = pass
    /\ last.prior.branch = "updated" /\ last.branch = "already synced"

\* the iteration fetched keywords and details and found every keyword,
\* ignoring case, among the current values
NothingToAdd ==
    /\ last.item # ""
    /\ last.fetched = "ok" /\ last.details = "ok"
    /\ allKeywordsExist(last.currentValues, last.keywords)

\* C14: when every freshly normalized keyword is, ignoring case, among the
\* item's current values and force mode is off, the iteration makes no call
\* of syncFieldWithKeywords and leaves the item's record as Storage.Get
\* returned it.
C14_CompleteItemNotUpdated ==
    (NothingToAdd /\ ~cfg.ForceUpdate) =>
        /\ last.branch = "has all"
        /\ ~last.updateCalled
        /\ storageData[last.item] = last.processed

\* a skip of an item without record that already carried its keywords
C14_Witness ==
    /\ NothingToAdd /\ ~cfg.ForceUpdate
    /\ last.keywords # <<>>
    /\ ~last.processed.exists
    /\ last.branch = "has all"

---------------------------------------------------------------------------
(* Properties of the normalizer and of the reconciler.                      *)

\* a string with its letters in lower case and its whitespace left out
Squash(s) == SelectSeq(ToLower(s), IsNonSpace)

\* the raw keyword is a key of criticalReplacements
IsLiteralEntry(keyword) ==
    \E p \in criticalReplacements : p[1] = ToLower(TrimSpace(keyword))

\* C15: NormalizeKeyword never truncates, reorders or drops a part of its
\* input: for an input that is no key of the replacement table the result,
\* compared ignoring letter case and whitespace, is the input, or the input
\* followed by the word "Relationship" the kinship rule appends.
C15_NormalizeKeepsEveryPart ==
    (Len(output) >= 1 /\ ~IsLiteralEntry(input)) =>
        \/ Squash(output[1]) = Squash(input)
        \/ Squash(output[1]) = Squash(input) \o <<"r","e","l","a","t","i","o","n","s","h","i","p">>

\* the current tags that are stale variants of a fresh tag: their
\* normalized form equals the fresh tag ignoring case, their text differs
StaleVariants(current, fresh) ==
    { i \in 1..Len(current) :
        \E form \in {ToLower(NormalizeKeyword(current[i]))} :
            \E j \in 1..Len(fresh) :
                /\ form = ToLower(fresh[j])
                /\ current[i] # fresh[j] }

\* the fresh tags that some current tag is a stale variant of
Canonicals(current, fresh) ==
    { j \in 1..Len(fresh) :
        \E i \in 1..Len(current) :
            /\ ToLower(NormalizeKeyword(current[i])) = ToLower(fresh[j])
            /\ current[i] # fresh[j] }

\* C16: the result of CleanDuplicateKeywords(current, fresh) contains no
\* current tag that is a stale variant of a fresh tag, and contains the
\* fresh tag of every stale variant.
C16_StaleVariantsReplaced ==
    Len(output) >= 1 =>
        /\ \A i \in StaleVariants(input[1], input[2]) :
              input[1][i] \notin Range(output[1])
        /\ \A j \in Canonicals(input[1], input[2]) :
              input[2][j] \in Range(output[1])

\* the elements of a list at the positions in idx, in the order of the list
RECURSIVE Pick(_, _, _)
Pick(list, idx, n) ==
    IF n = 0 THEN <<>>
    ELSE IF n \in idx THEN Append(Pick(list, idx, n - 1), list[n])
    ELSE Pick(list, idx, n - 1)

\* the positions in idx whose element equals, ignoring case, no element at
\* an earlier position in idx
FirstOfClass(list, idx) ==
    { i \in idx : \A k \in idx : k < i => ToLower(list[k]) # ToLower(list[i]) }

\* the current tags that are not stale variants, the first of each
\* case-insensitive class, in their order
Survivors(current, fresh) ==
    Pick(current,
         FirstOfClass(current, (1..Len(current)) \ StaleVariants(current, fresh)),
         Len(current))

\* the fresh tags not present, ignoring case, among the kept tags, in order
Additions(kept, fresh) ==
    Pick(fresh,
         { j \in FirstOfClass(fresh, 1..Len(fresh)) :
             ToLower(fresh[j]) \notin { ToLower(kept[k]) : k \in 1..Len(kept) } },
         Len(fresh))

ExampleResult ==
    << <<"A","c","t","i","o","n">>, <<"D","r","a","m","a">>,
       <<"C","u","s","t","o","m"," ","T","a","g">>, <<"S","c","i","-","F","i">>,
       <<"T","i","m","e"," ","T","r","a","v","e","l">> >>

\* C17: the result of CleanDuplicateKeywords(current, fresh) is the current
\* tags not marked stale, in their order, followed by the fresh tags not
\* already present, in their order, and no two of its elements are equal
\* ignoring case; for the documented example it is Action, Drama,
\* Custom Tag, Sci-Fi, Time Travel.
C17_SurvivorsThenAdditions ==
    Len(output) >= 1 =>
        /\ \E kept \in {Survivors(input[1], input[2])} :
              output[1] = kept \o Additions(kept, input[2])
        /\ \A i, j \in 1..Len(output[1]) :
              i # j => ToLower(output[1][i]) # ToLower(output[1][j])
        /\ input = ExampleInput => output[1] = ExampleResult

\* the documented example, reconciled
C17_Witness ==
    /\ Len(output) >= 1
    /\ input = ExampleInput
    /\ Survivors(input[1], input[2]) # <<>>
    /\ Additions(Survivors(input[1], input[2]), input[2]) # <<>>
    /\ StaleVariants(input[1], input[2]) # {}

(***************************************************************************)
(* SpecNormalizeAll: NormalizeKeywords applied to a list of raw keywords.  *)
(***************************************************************************)

MaxKeywords == 3

\* raw keywords as a provider returns them, some equal up to case and some
\* with the same normalized form
KeywordPool ==
    { <<"a","c","t","i","o","n">>, <<"A","C","T","I","O","N">>, <<"s","c","i","-","f","i">>, <<"S","c","i","-","F","i">>, <<"s","c","i"," ","f","i">>, <<"f","b","i">>, <<"t","i","m","e"," ","t","r","a","v","e","l">> }

\* the input and the expected result of TestNormalizeKeywords
TestKeywords ==
    << <<"a","c","t","i","o","n">>, <<"s","c","i","-","f","i">>, <<"f","b","i">>, <<"b","a","s","e","d"," ","o","n"," ","n","o","v","e","l">>, <<"t","i","m","e"," ","t","r","a","v","e","l">>,
       <<"w","o","m","a","n"," ","i","n"," ","p","e","r","i","l">>, <<"a","c","t","i","o","n">>, <<"A","C","T","I","O","N">> >>

TestExpected ==
    << <<"A","c","t","i","o","n">>, <<"S","c","i","-","F","i">>, <<"F","B","I">>, <<"B","a","s","e","d"," ","o","n"," ","N","o","v","e","l">>, <<"T","i","m","e"," ","T","r","a","v","e","l">>,
       <<"W","o","m","a","n"," ","i","n"," ","P","e","r","i","l">> >>

InitNormalizeAll ==
    /\ input \in SeqsUpTo(KeywordPool, MaxKeywords) \cup {TestKeywords}
    /\ output = <<>>
    /\ EngineIdle /\ FetchIdle /\ FlushIdle

ApplyNormalizeAll ==
    /\ output = <<>>
    /\ output' = <<NormalizeKeywords(input)>>
    /\ UNCHANGED <<input, engineVars, fetchVars, flushVars>>

NextNormalizeAll == ApplyNormalizeAll

SpecNormalizeAll == InitNormalizeAll /\ [][NextNormalizeAll]_vars

\* the normalized form of every element of a list
Forms(keywords) == [i \in 1..Len(keywords) |-> NormalizeKeyword(keywords[i])]

\* C18: NormalizeKeywords returns the normalized forms of its inputs, the
\* first of each class of forms equal ignoring case, in the order of the
\* input, so that no two elements of the result are equal ignoring case;
\* for the list of TestNormalizeKeywords it returns the expected list.
C18_FirstOfEachClassInOrder ==
    Len(output) = 1 =>
        \E forms \in {Forms(input)} :
            /\ output[1] = Pick(forms, FirstOfClass(forms, 1..Len(forms)), Len(forms))
            /\ \A i, j \in 1..Len(output[1]) :
                  i # j => ToLower(output[1][i]) # ToLower(output[1][j])
            /\ input = TestKeywords => output[1] = TestExpected

\* a list whose later element duplicates, up to case, the form of an
\* earlier one and was dropped, with a different form kept after it
C18_Witness ==
    /\ Len(output) = 1
    /\ Len(input) = 3
    /\ ToLower(NormalizeKeyword(input[2])) = ToLower(NormalizeKeyword(input[1]))
    /\ input[2] # input[1]
    /\ Len(output[1]) = 2
    /\ output[1][2] = NormalizeKeyword(input[3])

(***************************************************************************)
(* SpecExtract: ExtractTMDbIDFromPath applied to a path made of            *)
(* occurrences of the token, each with the character before it, the        *)
(* separators, the digits and the character after them.                    *)
(***************************************************************************)

MaxSeparators == 2
MaxDigits == 2
MaxOccurrences == 3

NoChar == <<>>
\* a letter, a digit, a bracket and the underscore
BeforeChars == { NoChar, <<"a">>, <<"7">>, <<"{">>, <<"_">> }
AfterChars  == { NoChar, <<"a">>, <<"7">>, <<"}">>, <<"_">> }
Tokens      == { <<"t","m","d","b">>, <<"T","M","D","B">>, <<"T","m","d","b">> }
SeparatorChars == { "-", "_" }
DigitPool   == { "0", "7" }

NonEmptySeqsUpTo(S, n) == UNION { [1..k -> S] : k \in 1..n }

\* every occurrence alone in the path
Occurrences ==
    [ pre : BeforeChars, token : Tokens,
      sep : SeqsUpTo(SeparatorChars, MaxSeparators),
      d : NonEmptySeqsUpTo(DigitPool, MaxDigits), post : AfterChars ]

\* the occurrences that paths with several of them are made of
PathOccurrences ==
    [ pre : { NoChar, <<"a">>, <<"{">> }, token : { <<"t","m","d","b">> },
      sep : { <<"-">> }, d : { <<"1">>, <<"2","2">> }, post : { NoChar, <<"a">> } ]

TextOf(o) == o.pre \o o.token \o o.sep \o o.d \o o.post

\* the occurrences of a path are separated by the path separator
PathOf(occs) == Join([i \in 1..Len(occs) |-> TextOf(occs[i])], <<"/">>)

InitExtract ==
    /\ input \in [1..1 -> Occurrences]
                 \cup UNION { [1..k -> PathOccurrences] : k \in 2..MaxOccurrences }
    /\ output = <<>>
    /\ EngineIdle /\ FetchIdle /\ FlushIdle

ApplyExtract ==
    /\ output = <<>>
    /\ output' = <<ExtractTMDbIDFromPath(PathOf(input))>>
    /\ UNCHANGED <<input, engineVars, fetchVars, flushVars>>

NextExtract == ApplyExtract

SpecExtract == InitExtract /\ [][NextExtract]_vars

Absent == <<>>

AlnumBefore(o) == o.pre # NoChar /\ o.pre[1] \in AlnumSet
AlnumAfter(o)  == o.post # NoChar /\ o.post[1] \in AlnumSet
DigitAfter(o)  == o.post # NoChar /\ o.post[1] \in Digits
LetterAfter(o) == AlnumAfter(o) /\ ~DigitAfter(o)

\* the whole run of digits after the separators
RunOf(o) == IF DigitAfter(o) THEN o.d \o o.post ELSE o.d

\* C19 as stated: an alphanumeric character immediately before the token or
\* immediately after the digits d makes the extraction absent, and
\* otherwise the extraction is d.
C19_AlnumNeighbourMeansAbsent ==
    (Len(output) = 1 /\ Len(input) = 1) =>
        IF AlnumBefore(input[1]) \/ AlnumAfter(input[1])
        THEN output[1] = Absent
        ELSE output[1] = input[1].d

\* C19 for the whole run of digits: an alphanumeric character immediately
\* before the token or a letter immediately after the whole digit run makes
\* the extraction absent, and otherwise the extraction is the whole run.
C19_BoundaryDecidesRun ==
    (Len(output) = 1 /\ Len(input) = 1) =>
        IF AlnumBefore(input[1]) \/ LetterAfter(input[1])
        THEN output[1] = Absent
        ELSE output[1] = RunOf(input[1])

\* an occurrence between two brackets, with separators, extracted
C19_Witness ==
    /\ Len(output) = 1 /\ Len(input) = 1
    /\ input[1].pre = <<"{">> /\ input[1].post = <<"}">>
    /\ Len(input[1].sep) = MaxSeparators
    /\ output[1] = input[1].d

\* an occurrence with a letter before the token, nothing extracted
C19_WitnessAbsent ==
    /\ Len(output) = 1 /\ Len(input) = 1
    /\ input[1].pre = <<"a">> /\ input[1].post = <<"}">>
    /\ output[1] = Absent

\* the occurrences of a path that satisfy the grammar
Satisfying(occs) ==
    { i \in 1..Len(occs) : ~AlnumBefore(occs[i]) /\ ~LetterAfter(occs[i]) }

\* C20: when several occurrences of a path satisfy the grammar, the
\* extraction is the digit run of the leftmost of them.
C20_LeftmostOccurrenceWins ==
    (Len(output) = 1 /\ Cardinality(Satisfying(input)) >= 2) =>
        \E i \in Satisfying(input) :
            /\ \A j \in Satisfying(input) : i <= j
            /\ output[1] = RunOf(input[i])

\* an occurrence that does not satisfy the grammar followed by two that
\* do, with different digit runs
C20_Witness ==
    /\ Len(output) = 1
    /\ Satisfying(input) = {2, 3}
    /\ input[1].d # input[2].d /\ input[2].d # input[3].d
    /\ output[1] = input[2].d

---------------------------------------------------------------------------
(* The resolver: order of the sources.                                      *)

TMDbScheme == <<"t","m","d","b",":","/","/">>

\* the GUIDs of the item that carry a tmdb identifier, by position
EmbeddedAt(in) ==
    { i \in 1..Len(in.item.guids) : HasPrefix(in.item.guids[i], TMDbScheme) }

\* the text after the scheme in the first of them
EmbeddedText(in) ==
    Drop(in.item.guids[CHOOSE i \in EmbeddedAt(in) : \A j \in EmbeddedAt(in) : i <= j],
         Len(TMDbScheme))

IsDigits(s) == s # <<>> /\ \A i \in 1..Len(s) : s[i] \in Digits

\* C21: when the item carries an embedded tmdb identifier, the resolution
\* consults no source (no lookup in Radarr or Sonarr, no episode listing, no
\* file path), and returns the identifier of the first tmdb GUID whenever
\* that GUID is the scheme followed by digits.
C21_EmbeddedIdentifierShortCircuits ==
    (output # <<>> /\ EmbeddedAt(input) # {}) =>
        /\ output[1].trace = <<>>
        /\ output[1].id # <<>>
        /\ IsDigits(EmbeddedText(input)) => output[1].id = EmbeddedText(input)

\* a movie with a tmdb GUID and files whose path matches, Radarr enabled and
\* answering every lookup, resolved from the GUID
C21_Witness ==
    /\ output # <<>>
    /\ input.mediaType = "movie"
    /\ EmbeddedAt(input) # {}
    /\ input.arr.enabled /\ input.arr.byTitle = 550
    /\ \E i \in 1..Len(input.item.files) : ExtractTMDbIDFromPath(input.item.files[i]) # <<>>
    /\ output[1].id = <<"1","3">>

\* the place of a secondary strategy in the order title and year, alternate
\* identifier, file path; the episode listing and the extractor come with
\* the file paths
StrategyRank(step) ==
    IF step = "title" THEN 1
    ELSE IF step \in {"tvdb", "imdb"} THEN 2
    ELSE 3

\* C22: for an item without embedded identifier and with the secondary
\* catalog enabled, the sources are consulted in the order title and year,
\* then alternate identifier, then file path, for movies and for series:
\* the title lookup comes first and no strategy is consulted after one that
\* comes later in this order.
C22_TitleThenIdentifierThenPath ==
    (output # <<>> /\ EmbeddedAt(input) = {} /\ input.arr.enabled) =>
        /\ output[1].trace # <<>> /\ output[1].trace[1] = "title"
        /\ \A i, j \in 1..Len(output[1].trace) :
              i < j => StrategyRank(output[1].trace[i]) <= StrategyRank(output[1].trace[j])

(***************************************************************************)
(* SpecBatch: the Batch Coordinator.  input is the length of the item list *)
(* and the batch size, output the items visited and the delays invoked, in *)
(* the order they happen.                                                  *)
(***************************************************************************)

MaxItems == 7
MaxBatchSize == 3

\* the documented example: 215 items, batch size 100
ExampleBatch == [n |-> 215, b |-> 100]

ItemEvent(index, chunk) == [kind |-> "item", index |-> index, chunk |-> chunk]
DelayEvent == [kind |-> "delay", index |-> 0, chunk |-> 0]

\* the number of items visited so far
Visited(events) == Cardinality({ i \in 1..Len(events) : events[i].kind = "item" })

\* a delay after every chunk, the last one included
delayDueAfterEveryChunk(events, n, b) ==
    /\ events # <<>> /\ events[Len(events)].kind = "item"
    /\ Visited(events) % b = 0

\* a chunk has just been completed and it is not the last one
delayDue(events, n, b) ==
    /\ events # <<>> /\ events[Len(events)].kind = "item"
    /\ Visited(events) % b = 0
    /\ Visited(events) < n

InitBatch ==
    /\ input \in [n : 0..MaxItems, b : 1..MaxBatchSize] \cup {ExampleBatch}
    /\ output = <<>>
    /\ EngineIdle /\ FetchIdle /\ FlushIdle

\* the next item of the current chunk goes through the engine
ProcessChunkItem ==
    /\ Visited(output) < input.n
    /\ ~delayDue(output, input.n, input.b)
    /\ \E done \in {Visited(output)} :
          output' = Append(output, ItemEvent(done + 1, (done \div input.b) + 1))
    /\ UNCHANGED <<input, engineVars, fetchVars, flushVars>>

\* the delay between two chunks
InterChunkDelay ==
    /\ delayDue(output, input.n, input.b)
    /\ output' = Append(output, DelayEvent)
    /\ UNCHANGED <<input, engineVars, fetchVars, flushVars>>

NextBatch == ProcessChunkItem \/ InterChunkDelay

SpecBatch == InitBatch /\ [][NextBatch]_vars

\* the pass is over: nothing is left to visit and no delay is due
BatchDone ==
    /\ Visited(output) = input.n
    /\ ~delayDue(output, input.n, input.b)

Ceil(n, b) == (n + b - 1) \div b

ItemEvents(events) == SelectSeq(events, LAMBDA e : e.kind = "item")
Delays(events) == Cardinality({ i \in 1..Len(events) : events[i].kind = "delay" })
ChunkSize(events, k) ==
    Cardinality({ i \in 1..Len(events) : events[i].kind = "item" /\ events[i].chunk = k })

\* every item once, in listing order, in Ceil(n, b) consecutive chunks of
\* b items, the last one of the remainder, and no delay at the end
VisitsInChunks ==
    \E items \in {ItemEvents(output)} :
        /\ Len(items) = input.n
        /\ \A i \in 1..Len(items) : items[i].index = i
        /\ \A i \in 1..Len(items) : items[i].chunk = ((i - 1) \div input.b) + 1
        /\ { items[i].chunk : i \in 1..Len(items) } = 1..Ceil(input.n, input.b)
        /\ output # <<>> => output[Len(output)].kind = "item"
        /\ \A i \in 1..(Len(output) - 1) :
              output[i].kind = "delay" =>
                  /\ i > 1 /\ output[i - 1].kind = "item" /\ output[i + 1].kind = "item"
                  /\ output[i + 1].chunk = output[i - 1].chunk + 1

\* C23 as stated: a finished pass over n items with batch size b has visited
\* every item exactly once, in listing order, in Ceil(n, b) consecutive
\* chunks, and has invoked the delay exactly Ceil(n, b) - 1 times, never
\* after the last chunk.
C23_ChunksAndDelays ==
    BatchDone =>
        /\ VisitsInChunks
        /\ Delays(output) = Ceil(input.n, input.b) - 1

\* C23 for a list that may be empty: as above, with no chunk and no delay
\* for the empty list and Ceil(n, b) - 1 delays otherwise; 215 items with
\* batch size 100 give chunks of 100, 100 and 15 and 2 delays.
C23_ChunksAndDelaysBetween ==
    BatchDone =>
        /\ VisitsInChunks
        /\ Delays(output) = IF input.n = 0 THEN 0 ELSE Ceil(input.n, input.b) - 1
        /\ input = ExampleBatch =>
              /\ ChunkSize(output, 1) = 100 /\ ChunkSize(output, 2) = 100
              /\ ChunkSize(output, 3) = 15 /\ Delays(output) = 2

\* the documented example, finished
C23_Witness ==
    /\ BatchDone
    /\ input = ExampleBatch
    /\ Delays(output) = 2

(***************************************************************************)
(* SpecExport: one call of Exporter.ExportItemWithSizes.  input is the     *)
(* exporter (its labels, its current library, what it has accumulated) and *)
(* the item (its labels and its files), output the accumulation after the  *)
(* call.                                                                   *)
(***************************************************************************)

MaxItemLabels == 2

\* EXPORT_LABELS as parseExportLabels returns them: trimmed, not empty; two
\* labels may differ in case only, and a label may be given twice
ExportLabelLists ==
    { << <<"A","c","t","i","o","n">>, <<"4","K">> >>, << <<"4","K">>, <<"4","k">> >>, << <<"4","K">>, <<"4","K">> >> }

\* labels of an item in the catalog
ItemLabelPool == { <<"a","c","t","i","o","n">>, <<"4","K">>, <<" ","4","k"," ">>, <<"D","r","a","m","a">> }

FileInfo(path, size) == [Path |-> path, Size |-> size]

ItemFileLists ==
    { <<>>, << FileInfo(<<"/","m","/","a",".","m","k","v">>, 7) >>,
      << FileInfo(<<"/","m","/","a",".","m","k","v">>, 7), FileInfo(<<"/","m","/","b",".","m","k","v">>, 0) >> }

EarlierFiles == << FileInfo(<<"/","m","/","z",".","m","k","v">>, 3) >>

\* what the pass has accumulated before the item: nothing registered, the
\* libraries registered, and an earlier item recorded under the first
\* label of one library or of both
ExportAccumulations(exportLabels) ==
    { NoAccumulation,
      registerLibrary(NoAccumulation, exportLabels, <<"M","o","v","i","e","s">>, TRUE),
      ExportItemWithSizes(registerLibrary(NoAccumulation, exportLabels, <<"M","o","v","i","e","s">>, TRUE),
                          <<"M","o","v","i","e","s">>, exportLabels, <<exportLabels[1]>>, EarlierFiles),
      ExportItemWithSizes(
          ExportItemWithSizes(
              registerLibrary(registerLibrary(NoAccumulation, exportLabels, <<"M","o","v","i","e","s">>, TRUE),
                              exportLabels, <<"T","V","/","A","n","i","m","e">>, TRUE),
              <<"M","o","v","i","e","s">>, exportLabels, <<exportLabels[1]>>, EarlierFiles),
          <<"T","V","_","A","n","i","m","e">>, exportLabels, <<exportLabels[1]>>, EarlierFiles) }

ExportInputs ==
    UNION { [ exportLabels : {ls}, accumulated : ExportAccumulations(ls),
              currentLibrary : { <<>>, <<"M","o","v","i","e","s">>, <<"T","V","_","A","n","i","m","e">> },
              itemLabels : SeqsUpTo(ItemLabelPool, MaxItemLabels),
              fileInfos : ItemFileLists ] : ls \in ExportLabelLists }

InitExport ==
    /\ input \in ExportInputs
    /\ output = <<>>
    /\ EngineIdle /\ FetchIdle /\ FlushIdle

ApplyExport ==
    /\ output = <<>>
    /\ output' = <<ExportItemWithSizes(input.accumulated, input.currentLibrary,
                                       input.exportLabels, input.itemLabels, input.fileInfos)>>
    /\ UNCHANGED <<input, engineVars, fetchVars, flushVars>>

NextExport == ApplyExport

SpecExport == InitExport /\ [][NextExport]_vars

\* the bucket of a library and a label in an accumulation, empty when there
\* is none
BucketOf(acc, library, label) ==
    IF library \in DOMAIN acc /\ label \in DOMAIN acc[library] THEN acc[library][label]
    ELSE <<>>

\* the item's label set contains the export label, ignoring case
ItemCarries(itemLabels, label) ==
    \E i \in 1..Len(itemLabels) : EqualFold(TrimSpace(itemLabels[i]), TrimSpace(label))

\* the places at which the configuration names the label
ConfiguredAt(exportLabels, label) == { i \in 1..Len(exportLabels) : exportLabels[i] = label }

\* C24: with a current library set, recording an item appends all of its
\* (path, size) pairs, in order, to the bucket of the current library for
\* each configured export label the item carries ignoring case (once for
\* each time the label is configured), and leaves every other bucket of
\* every library as it was.
C24_RecordedUnderEveryMatchingLabel ==
    (output # <<>> /\ input.currentLibrary # <<>>) =>
        \A library \in DOMAIN input.accumulated \cup DOMAIN output[1] \cup {input.currentLibrary} :
        \A label \in Range(input.exportLabels) :
            \E before \in {BucketOf(input.accumulated, library, label)} :
                BucketOf(output[1], library, label) =
                    IF library = input.currentLibrary /\ ItemCarries(input.itemLabels, label)
                    THEN IF Cardinality(ConfiguredAt(input.exportLabels, label)) = 1
                         THEN before \o input.fileInfos
                         ELSE before \o input.fileInfos \o input.fileInfos
                    ELSE before

\* an item with two files that carries both export labels, in lower case,
\* recorded in a library that already holds files, next to another library
C24_Witness ==
    /\ output # <<>>
    /\ input.exportLabels = << <<"A","c","t","i","o","n">>, <<"4","K">> >>
    /\ input.currentLibrary = <<"M","o","v","i","e","s">>
    /\ Len(input.fileInfos) = 2
    /\ input.itemLabels = << <<" ","4","k"," ">>, <<"a","c","t","i","o","n">> >>
    /\ BucketOf(input.accumulated, <<"M","o","v","i","e","s">>, <<"A","c","t","i","o","n">>) = EarlierFiles
    /\ BucketOf(output[1], <<"M","o","v","i","e","s">>, <<"A","c","t","i","o","n">>) = EarlierFiles \o input.fileInfos
    /\ BucketOf(output[1], <<"M","o","v","i","e","s">>, <<"4","K">>) = input.fileInfos
    /\ BucketOf(output[1], <<"T","V","_","A","n","i","m","e">>, <<"A","c","t","i","o","n">>) = EarlierFiles

---------------------------------------------------------------------------
(* The flush: what it leaves in memory and on disk.                         *)

\* C25: FlushAll leaves the accumulation empty exactly when it returns
\* success; as long as it has not returned success, and when it returns an
\* error, the accumulation is what it was before.
C25_ClearedExactlyOnSuccess ==
    [][ /\ (flush'.result = "ok") <=> (flush'.accumulated = NoAccumulation)
        /\ flush'.result # "ok" => flush'.accumulated = flush.accumulated ]_vars

\* a flush that failed after it had written files, with files accumulated
C25_Witness ==
    /\ flush.result = "error"
    /\ flush.done >= 3
    /\ \E lib \in DOMAIN flush.accumulated :
          \E l \in DOMAIN flush.accumulated[lib] : flush.accumulated[lib][l] # <<>>

\* FlushAll has just returned success in this step of the engine
FlushedNow ==
    /\ cfg.export
    /\ phase = "flush" /\ phase' = "wait"
    /\ accumulated' = NoAccumulation
    /\ failures'.calls = failures.calls

\* the libraries whose directory name is the given one
LibrariesNamed(name) ==
    { i \in 1..Len(Libraries) : sanitizeFilename(Libraries[i].title) = name }

\* no item of the libraries of that name carries the label
NoItemMatches(tags, name, label) ==
    \A i \in LibrariesNamed(name) :
        \A k \in 1..Len(Libraries[i].items) :
            ~ItemCarries(tags[Libraries[i].items[k]], label)

\* C26: after a successful flush in text mode, for every library registered
\* with the exporter and every configured export label the export location
\* holds the file of that library and label, and the file is empty when no
\* item of the library carries the label.
C26_FileForEveryLibraryAndLabel ==
    [][ FlushedNow =>
          \A name \in DOMAIN accumulated : \A n \in 1..Len(ExportLabels) :
             \E file \in {ExportFile(name, ExportLabels[n])} :
                /\ LibrariesNamed(name) # {}
                /\ file \in DOMAIN exportFiles'
                /\ NoItemMatches(plexTags, name, ExportLabels[n]) => exportFiles'[file] = <<>>
      ]_vars

\* after a flush, the file of a label that no series carries exists and is
\* empty, next to the file of a label that a movie carries
C26_Witness ==
    /\ phase = "wait"
    /\ accumulated = NoAccumulation
    /\ ExportFile(<<"T","V","_","A","n","i","m","e">>, <<"4","K">>) \in DOMAIN exportFiles
    /\ exportFiles[ExportFile(<<"T","V","_","A","n","i","m","e">>, <<"4","K">>)] = <<>>
    /\ NoItemMatches(plexTags, <<"T","V","_","A","n","i","m","e">>, <<"4","K">>)
    /\ ExportFile(<<"M","o","v","i","e","s">>, <<"4","K">>) \in DOMAIN exportFiles
    /\ exportFiles[ExportFile(<<"M","o","v","i","e","s">>, <<"4","K">>)] # <<>>

(***************************************************************************)
(* SpecLoop: handleNormalMode (cmd/labelarr/main.go).  input is the        *)
(* configuration and the libraries getLibraries returned, output the       *)
(* position of the control flow, the calls made in the current pass and    *)
(* the ticker.                                                             *)
(***************************************************************************)

MaxLibraries == 2
MaxTicks == 3
MaxLoopPasses == 3

\* MOVIE_LIBRARY_ID and TV_LIBRARY_ID: 0 when unset, otherwise the place of
\* the library among those of its type
LoopConfigs ==
    { c \in [ movieLibraries : 0..MaxLibraries, tvLibraries : 0..MaxLibraries,
              MovieProcessAll : BOOLEAN, MovieLibraryID : 0..1,
              TVProcessAll : BOOLEAN, TVLibraryID : 0..1,
              HasExportEnabled : BOOLEAN ] :
        \* getLibraries and displayLibrarySelection did not exit
        /\ (c.movieLibraries = 0 => (c.TVLibraryID # 0 \/ c.TVProcessAll))
        /\ ((c.TVLibraryID # 0 \/ c.TVProcessAll) => c.tvLibraries > 0)
        /\ ((c.MovieLibraryID # 0 /\ ~c.MovieProcessAll) => c.movieLibraries > 0) }

ProcessTVShows(c) == c.TVLibraryID # 0 \/ c.TVProcessAll

LibraryCall(mediaType, library) == [call |-> "ProcessAllItems", mediaType |-> mediaType, library |-> library]
FlushCall == [call |-> "FlushAll", mediaType |-> "", library |-> 0]

\* the movie libraries processFunc goes through, in order
movieCalls(c) ==
    IF c.movieLibraries > 0
    THEN IF c.MovieProcessAll THEN [i \in 1..c.movieLibraries |-> LibraryCall("movie", i)]
         ELSE IF c.MovieLibraryID # 0 THEN <<LibraryCall("movie", c.MovieLibraryID)>>
         ELSE <<>>
    ELSE <<>>

\* the series libraries processFunc goes through, in order
tvCalls(c) ==
    IF ProcessTVShows(c)
    THEN IF c.TVProcessAll THEN [i \in 1..c.tvLibraries |-> LibraryCall("tv", i)]
         ELSE IF c.TVLibraryID # 0 THEN <<LibraryCall("tv", c.TVLibraryID)>>
         ELSE <<>>
    ELSE <<>>

InitLoop ==
    /\ input \in LoopConfigs
    /\ output = [pc |-> "movies", next |-> 1, pass |-> 1, running |-> {1}, log |-> <<>>,
                 ticker |-> FALSE, buffered |-> FALSE, fired |-> 0]
    /\ EngineIdle /\ FetchIdle /\ FlushIdle

LoopUnchanged == UNCHANGED <<input, engineVars, fetchVars, flushVars>>

\* ProcessAllItems for the next movie library; it returns nil or an error,
\* which is printed
ProcessMovieLibrary ==
    /\ output.pc = "movies"
    /\ output.next <= Len(movieCalls(input))
    /\ output' = [output EXCEPT !.log = Append(@, movieCalls(input)[output.next]),
                                !.next = @ + 1]
    /\ LoopUnchanged

MoviesDone ==
    /\ output.pc = "movies"
    /\ output.next > Len(movieCalls(input))
    /\ output' = [output EXCEPT !.pc = "tv", !.next = 1]
    /\ LoopUnchanged

\* ProcessAllItems for the next series library, followed by a flush
ProcessTVLibraryAndFlush ==
    /\ output.pc = "tv"
    /\ output.next <= Len(tvCalls(input))
    /\ output' = [output EXCEPT !.log = @ \o <<tvCalls(input)[output.next], FlushCall>>,
                                !.next = @ + 1]
    /\ LoopUnchanged

\* ProcessAllItems for the next series library
ProcessTVLibrary ==
    /\ output.pc = "tv"
    /\ output.next <= Len(tvCalls(input))
    /\ output' = [output EXCEPT !.log = Append(@, tvCalls(input)[output.next]),
                                !.next = @ + 1]
    /\ LoopUnchanged

TVDone ==
    /\ output.pc = "tv"
    /\ output.next > Len(tvCalls(input))
    /\ output' = [output EXCEPT !.pc = "flush", !.next = 1]
    /\ LoopUnchanged

\* processFunc returns; after the first pass the ticker is created
returned(o) ==
    [o EXCEPT !.pc = "wait", !.running = @ \ {o.pass}, !.ticker = TRUE]

\* exporter.FlushAll, whether anything was accumulated or not; it returns
\* nil or an error, which is printed
FlushAccumulated ==
    /\ output.pc = "flush"
    /\ input.HasExportEnabled
    /\ output' = returned([output EXCEPT !.log = Append(@, FlushCall)])
    /\ LoopUnchanged

\* no export is configured
NoExport ==
    /\ output.pc = "flush"
    /\ ~input.HasExportEnabled
    /\ output' = returned(output)
    /\ LoopUnchanged

\* the ticker fires and starts processFunc on its own
TickerFiresAndStartsPass ==
    /\ output.ticker
    /\ output.fired < MaxTicks
    /\ output' = [output EXCEPT !.fired = @ + 1, !.pass = @ + 1,
                                !.running = @ \cup {output.pass + 1}]
    /\ LoopUnchanged

\* the ticker fires: the tick is put on ticker.C, which holds one tick, or
\* dropped when one is waiting there
TickerFires ==
    /\ output.ticker
    /\ output.fired < MaxTicks
    /\ output' = [output EXCEPT !.fired = @ + 1, !.buffered = TRUE]
    /\ LoopUnchanged

\* for range ticker.C: the loop takes the tick and calls processFunc
ReceiveTick ==
    /\ output.pc = "wait"
    /\ output.buffered
    /\ output.pass < MaxLoopPasses
    /\ output' = [output EXCEPT !.buffered = FALSE, !.pass = @ + 1,
                                !.running = @ \cup {output.pass + 1},
                                !.pc = "movies", !.next = 1, !.log = <<>>]
    /\ LoopUnchanged

NextLoop ==
    \/ ProcessMovieLibrary \/ MoviesDone \/ ProcessTVLibrary \/ TVDone
    \/ FlushAccumulated \/ NoExport \/ TickerFires \/ ReceiveTick

SpecLoop == InitLoop /\ [][NextLoop]_vars

\* the libraries configured for processing: all of a type or the one named
ConfiguredLibraries(c) ==
    (IF c.MovieProcessAll THEN [i \in 1..c.movieLibraries |-> LibraryCall("movie", i)]
     ELSE IF c.MovieLibraryID # 0 THEN <<LibraryCall("movie", c.MovieLibraryID)>> ELSE <<>>)
    \o
    (IF c.TVProcessAll THEN [i \in 1..c.tvLibraries |-> LibraryCall("tv", i)]
     ELSE IF c.TVLibraryID # 0 THEN <<LibraryCall("tv", c.TVLibraryID)>> ELSE <<>>)

\* C27: with export configured, FlushAll is called exactly once in each
\* pass, after ProcessAllItems has been called for every configured movie
\* and series library, and never before that.
C27_OneFlushAfterAllLibraries ==
    (output # <<>> /\ input.HasExportEnabled) =>
        /\ \A i \in 1..Len(output.log) :
              output.log[i] = FlushCall =>
                  /\ i = Len(output.log)
                  /\ SubSeq(output.log, 1, i - 1) = ConfiguredLibraries(input)
        /\ output.pc = "wait" => output.log = Append(ConfiguredLibraries(input), FlushCall)

\* a second pass over two movie libraries and two series libraries, ended
\* by its flush
C27_Witness ==
    /\ output.pc = "wait"
    /\ output.pass = 2
    /\ input.HasExportEnabled
    /\ Len(output.log) = 5
    /\ output.log[5] = FlushCall

\* C28: at most one pass is in progress at any time: a tick that fires
\* does not start a pass, whether a pass is running or not, and a pass
\* begins only when no pass is running.
C28_OnePassAtATime ==
    [][ /\ Cardinality(output'.running) <= 1
        /\ output'.fired # output.fired =>
              (output'.running = output.running /\ output'.pass = output.pass
                  /\ output'.log = output.log /\ output'.pc = output.pc)
        /\ output'.pass # output.pass => (output.running = {} /\ output.pc = "wait")
      ]_vars

\* the third pass runs, after ticks fired during the second pass
C28_Witness ==
    /\ output.pass = 3
    /\ output.running = {3}
    /\ output.fired = MaxTicks
    /\ output.buffered
    /\ output.log # <<>>

(***************************************************************************)
(* SpecRemove: the body of the loop of RemoveKeywordsFromItems for one     *)
(* item that has a TMDb identifier and readable details.  input is the     *)
(* item's current tags, what the provider answers, what the media server   *)
(* answers and REMOVE; output holds the outcome for the item.              *)
(***************************************************************************)

MaxRemovalTags == 3

\* tags found on an item: applied keywords, a variant in other case, a
\* keyword naming a city and its country, and tags added by hand
RemovalTagPool ==
    { <<"A","c","t","i","o","n">>, <<"a","c","t","i","o","n">>, <<"R","o","m","e",","," ","I","t","a","l","y">>, <<"R","o","m","e">>, <<"C","u","s","t","o","m"," ","T","a","g">> }

RemovalRawKeywords == { <<"a","c","t","i","o","n">>, <<"r","o","m","e",","," ","i","t","a","l","y">>, <<"d","r","a","m","a">> }

RemoveModes == {"lock", "unlock"}

RemovalInputs ==
    [ currentValues : SeqsUpTo(RemovalTagPool, MaxRemovalTags),
      rawKeywords : SeqsUpTo(RemovalRawKeywords, MaxRawKeywords),
      keywordsError : BOOLEAN,
      removeError : BOOLEAN,
      RemoveMode : RemoveModes ]

\* the loop over currentValues: the values whose lower-case form is a key
\* of keywordMap, in the order of the item
RECURSIVE valuesToRemove(_, _, _)
valuesToRemove(currentValues, keywordMap, i) ==
    IF i > Len(currentValues) THEN <<>>
    ELSE (IF ToLower(currentValues[i]) \in keywordMap THEN <<currentValues[i]>> ELSE <<>>)
         \o valuesToRemove(currentValues, keywordMap, i + 1)

\* the value of the parameter <field>[].tag.tag-
combinedValues(values) == Join(values, <<",">>)

\* the media server takes the value of <field>[].tag.tag- as a list of
\* tags separated by commas and takes these tags off the item
tagsAfterRemoval(currentValues, parameter) ==
    LET named == Range(Split(parameter, ","))
    IN  SelectSeq(currentValues, LAMBDA t : t \notin named)

NotSent == <<"-">>

\* the loop body of RemoveKeywordsFromItems once valuesToRemove is built:
\* nothing to remove, a failed request, or the request sent
removalOutcome(in, found) ==
    IF found = <<>>
    THEN [outcome |-> "skipped", sent |-> NotSent, tags |-> in.currentValues, locked |-> "kept"]
    ELSE IF in.removeError
    THEN [outcome |-> "failed", sent |-> combinedValues(found),
          tags |-> in.currentValues, locked |-> "kept"]
    ELSE [outcome |-> "removed", sent |-> combinedValues(found),
          tags |-> tagsAfterRemoval(in.currentValues, combinedValues(found)),
          locked |-> IF in.RemoveMode = "lock" THEN "1" ELSE "0"]

\* the loop body of RemoveKeywordsFromItems for one item; keywords,
\* keywordMap and found are its locals, each computed once
removeFromItem(in) ==
    IF Len(in.currentValues) = 0
    THEN [outcome |-> "skipped", sent |-> NotSent, tags |-> in.currentValues, locked |-> "kept"]
    ELSE CHOOSE result \in
           { removalOutcome(in, found) :
               found \in { valuesToRemove(in.currentValues, keywordMap, 1) :
                   keywordMap \in { LowerKeys(keywords, Len(keywords)) :
                       keywords \in { IF in.keywordsError THEN <<>>
                                      ELSE NormalizeKeywords(in.rawKeywords) } } } } : TRUE

InitRemove ==
    /\ input \in RemovalInputs
    /\ output = <<>>
    /\ EngineIdle /\ FetchIdle /\ FlushIdle

RemoveFromItem ==
    /\ output = <<>>
    /\ output' = <<removeFromItem(input)>>
    /\ UNCHANGED <<input, engineVars, fetchVars, flushVars>>

NextRemove == RemoveFromItem

SpecRemove == InitRemove /\ [][NextRemove]_vars

\* the current tags that equal, ignoring case, a fetched keyword
MatchingTags(in) ==
    { t \in Range(in.currentValues) :
        \E k \in Range(NormalizeKeywords(in.rawKeywords)) : EqualFold(t, k) }

RemovedTags == Range(input.currentValues) \ Range(output[1].tags)

HasComma(t) == \E i \in 1..Len(t) : t[i] = ","

\* C29: when the keywords were fetched and the media server accepted the
\* removal, the tags taken off the item are exactly its current tags that
\* equal, ignoring case, a fetched keyword; every other tag stays.
C29_RemovesExactlyMatchingTags ==
    (output # <<>> /\ ~input.keywordsError /\ ~input.removeError
         /\ Len(input.currentValues) > 0) =>
        RemovedTags = MatchingTags(input)

\* the same for items none of whose matching tags contains a comma
C29_RemovesExactlyMatchingTagsWithoutComma ==
    (output # <<>> /\ ~input.keywordsError /\ ~input.removeError
         /\ Len(input.currentValues) > 0
         /\ \A t \in MatchingTags(input) : ~HasComma(t)) =>
        /\ RemovedTags = MatchingTags(input)
        /\ output[1].tags = SelectSeq(input.currentValues,
                                      LAMBDA t : t \notin MatchingTags(input))

\* two matching tags in different case are removed, a tag added by hand stays
C29_Witness ==
    /\ output # <<>>
    /\ input.currentValues = << <<"A","c","t","i","o","n">>, <<"C","u","s","t","o","m"," ","T","a","g">>, <<"a","c","t","i","o","n">> >>
    /\ output[1].outcome = "removed"
    /\ output[1].tags = << <<"C","u","s","t","o","m"," ","T","a","g">> >>

(***************************************************************************)
(* SpecMain: main and handleRemoveMode (cmd/labelarr/main.go) after the    *)
(* configuration was validated and the libraries were listed.  input is    *)
(* the configuration with REMOVE, output the position of the control flow  *)
(* and the calls made.                                                     *)
(***************************************************************************)

\* REMOVE as Validate accepts it
RemoveSettings == {"", "lock", "unlock"}

MainConfigs == { <<c, r>> : c \in LoopConfigs, r \in RemoveSettings }

IsRemoveMode(in) == in[2] # ""

ProcessMovies(c) == c.MovieLibraryID # 0 \/ c.MovieProcessAll

RemovalCall(mediaType, library) ==
    [call |-> "RemoveKeywordsFromItems", mediaType |-> mediaType, library |-> library]

\* the movie libraries handleRemoveMode goes through, in order
movieRemovals(c) ==
    IF ProcessMovies(c)
    THEN IF c.MovieProcessAll THEN [i \in 1..c.movieLibraries |-> RemovalCall("movie", i)]
         ELSE <<RemovalCall("movie", c.MovieLibraryID)>>
    ELSE <<>>

\* the series libraries handleRemoveMode goes through, in order
tvRemovals(c) ==
    IF ProcessTVShows(c)
    THEN IF c.TVProcessAll THEN [i \in 1..c.tvLibraries |-> RemovalCall("tv", i)]
         ELSE <<RemovalCall("tv", c.TVLibraryID)>>
    ELSE <<>>

InitMain ==
    /\ input \in MainConfigs
    /\ output = [pc |-> "main", next |-> 1, log |-> <<>>, exit |-> -1]
    /\ EngineIdle /\ FetchIdle /\ FlushIdle

MainUnchanged == UNCHANGED <<input, engineVars, fetchVars, flushVars>>

\* if cfg.IsRemoveMode() { handleRemoveMode(...)
EnterRemoveMode ==
    /\ output.pc = "main"
    /\ IsRemoveMode(input)
    /\ output' = [output EXCEPT !.pc = "removeMovies"]
    /\ MainUnchanged

\* handleNormalMode(...): the first pass and the ticker loop, which does
\* not return
EnterNormalMode ==
    /\ output.pc = "main"
    /\ ~IsRemoveMode(input)
    /\ output' = [output EXCEPT !.pc = "loop"]
    /\ MainUnchanged

\* RemoveKeywordsFromItems for the next movie library; an error is printed
RemoveFromMovieLibrary ==
    /\ output.pc = "removeMovies"
    /\ output.next <= Len(movieRemovals(input[1]))
    /\ output' = [output EXCEPT !.log = Append(@, movieRemovals(input[1])[output.next]),
                                !.next = @ + 1]
    /\ MainUnchanged

MovieRemovalsDone ==
    /\ output.pc = "removeMovies"
    /\ output.next > Len(movieRemovals(input[1]))
    /\ output' = [output EXCEPT !.pc = "removeTV", !.next = 1]
    /\ MainUnchanged

\* RemoveKeywordsFromItems for the next series library; an error is printed
RemoveFromTVLibrary ==
    /\ output.pc = "removeTV"
    /\ output.next <= Len(tvRemovals(input[1]))
    /\ output' = [output EXCEPT !.log = Append(@, tvRemovals(input[1])[output.next]),
                                !.next = @ + 1]
    /\ MainUnchanged

\* handleRemoveMode returns and main goes on to handleNormalMode
ReturnFromRemoveMode ==
    /\ output.pc = "removeTV"
    /\ output.next > Len(tvRemovals(input[1]))
    /\ output' = [output EXCEPT !.pc = "loop", !.next = 1]
    /\ MainUnchanged

\* handleRemoveMode returns; os.Exit(0) }
ExitAfterRemoveMode ==
    /\ output.pc = "removeTV"
    /\ output.next > Len(tvRemovals(input[1]))
    /\ output' = [output EXCEPT !.pc = "exited", !.next = 1, !.exit = 0]
    /\ MainUnchanged

NextMain ==
    \/ EnterRemoveMode \/ EnterNormalMode
    \/ RemoveFromMovieLibrary \/ MovieRemovalsDone
    \/ RemoveFromTVLibrary \/ ExitAfterRemoveMode

\* main runs on one goroutine: a step that is possible is taken, provided
\* every call of RemoveKeywordsFromItems returns
SpecMain == InitMain /\ [][NextMain]_vars /\ WF_vars(NextMain)

\* one removal call for every configured library
ConfiguredRemovals(c) ==
    (IF c.MovieProcessAll THEN [i \in 1..c.movieLibraries |-> RemovalCall("movie", i)]
     ELSE IF c.MovieLibraryID # 0 THEN <<RemovalCall("movie", c.MovieLibraryID)>> ELSE <<>>)
    \o
    (IF c.TVProcessAll THEN [i \in 1..c.tvLibraries |-> RemovalCall("tv", i)]
     ELSE IF c.TVLibraryID # 0 THEN <<RemovalCall("tv", c.TVLibraryID)>> ELSE <<>>)

MaxSets == 2
MaxInterruptions == 1

Streams == {"s1", "s2"}

\* the item each stream records
RatingKeyOf == [s1 |-> "k1", s2 |-> "k2"]
RatingKeys == {"k0", "k1", "k2"}

\* a document: rating key -> number of the record written for it, 0 for none
NoRecords == [k \in RatingKeys |-> 0]
EarlierRecords == [k \in RatingKeys |-> IF k = "k0" THEN 1 ELSE 0]

NoFile == [exists |-> FALSE, complete |-> FALSE, doc |-> NoRecords]
CompleteFile(doc) == [exists |-> TRUE, complete |-> TRUE, doc |-> doc]
\* a file that was created or truncated and not written to its end
PartialFile == [exists |-> TRUE, complete |-> FALSE, doc |-> NoRecords]

\* load: the document of the file; none when the file is absent, an error
\* when it does not parse
loaded(file) == IF file.exists /\ file.complete THEN file.doc ELSE NoRecords

InitStorage ==
    /\ input \in {NoFile, CompleteFile(EarlierRecords)}
    /\ output = [data |-> loaded(input), file |-> input, temp |-> NoFile, mutex |-> "",
                 pc |-> [s \in Streams |-> "idle"],
                 buf |-> [s \in Streams |-> NoRecords],
                 calls |-> [s \in Streams |-> 0],
                 result |-> [s \in Streams |-> "none"],
                 down |-> FALSE, interruptions |-> 0]
    /\ EngineIdle /\ FetchIdle /\ FlushIdle

StorageUnchanged == UNCHANGED <<input, engineVars, fetchVars, flushVars>>

\* Set enters without taking the mutex
LockNotTaken(s) ==
    /\ ~output.down
    /\ output.pc[s] = "idle"
    /\ output.calls[s] < MaxSets
    /\ output' = [output EXCEPT !.pc[s] = "locked", !.calls[s] = @ + 1,
                                !.result[s] = "running"]
    /\ StorageUnchanged

\* s.mutex.Lock()
Lock(s) ==
    /\ ~output.down
    /\ output.pc[s] = "idle"
    /\ output.calls[s] < MaxSets
    /\ output.mutex = ""
    /\ output' = [output EXCEPT !.mutex = s, !.pc[s] = "locked", !.calls[s] = @ + 1,
                                !.result[s] = "running"]
    /\ StorageUnchanged

\* s.data[item.RatingKey] = item; json.MarshalIndent(s.data)
StoreAndMarshal(s) ==
    /\ ~output.down
    /\ output.pc[s] = "locked"
    /\ \E data \in {[output.data EXCEPT ![RatingKeyOf[s]] = output.calls[s]]} :
          output' = [output EXCEPT !.data = data, !.buf[s] = data, !.pc[s] = "marshalled"]
    /\ StorageUnchanged

\* the file is created or truncated at the path of the document itself
CreateInPlace(s) ==
    /\ ~output.down
    /\ output.pc[s] = "marshalled"
    /\ output' = [output EXCEPT !.file = PartialFile, !.pc[s] = "created"]
    /\ StorageUnchanged

\* os.WriteFile(tempFile): the file is created or truncated
CreateTemp(s) ==
    /\ ~output.down
    /\ output.pc[s] = "marshalled"
    /\ output' = [output EXCEPT !.temp = PartialFile, !.pc[s] = "created"]
    /\ StorageUnchanged

\* os.WriteFile(tempFile): the data is written to its end
WriteTemp(s) ==
    /\ ~output.down
    /\ output.pc[s] = "created"
    /\ output' = [output EXCEPT !.temp = CompleteFile(output.buf[s]), !.pc[s] = "written"]
    /\ StorageUnchanged

\* return with the deferred s.mutex.Unlock()
returnedFromSet(o, s, result) ==
    [o EXCEPT !.mutex = IF @ = s THEN "" ELSE @, !.pc[s] = "idle", !.result[s] = result]

\* os.WriteFile returns an error, before or after the file was created
WriteFileFails(s) ==
    /\ ~output.down
    /\ output.pc[s] \in {"marshalled", "created"}
    /\ output' = returnedFromSet(output, s, "error")
    /\ StorageUnchanged

\* os.Rename(tempFile, s.filePath) puts the temporary file in the place of
\* the document in one step; Set returns nil
Rename(s) ==
    /\ ~output.down
    /\ output.pc[s] = "written"
    /\ output.temp.exists
    /\ output' = returnedFromSet([output EXCEPT !.file = output.temp, !.temp = NoFile], s, "ok")
    /\ StorageUnchanged

\* os.Rename returns an error
RenameFails(s) ==
    /\ ~output.down
    /\ output.pc[s] = "written"
    /\ output' = returnedFromSet(output, s, "error")
    /\ StorageUnchanged

\* the process is interrupted: memory is lost, the files stay as they are
Interrupt ==
    /\ ~output.down
    /\ output.interruptions < MaxInterruptions
    /\ output' = [output EXCEPT !.down = TRUE, !.interruptions = @ + 1, !.mutex = "",
                                !.pc = [s \in Streams |-> "idle"],
                                !.buf = [s \in Streams |-> NoRecords],
                                !.result = [s \in Streams |->
                                              IF output.pc[s] = "idle" THEN output.result[s]
                                              ELSE "interrupted"]]
    /\ StorageUnchanged

\* the process starts again: NewStorage loads the document
Start ==
    /\ output.down
    /\ output' = [output EXCEPT !.down = FALSE, !.data = loaded(output.file)]
    /\ StorageUnchanged

NextStorage ==
    \/ \E s \in Streams :
          \/ Lock(s) \/ StoreAndMarshal(s) \/ CreateTemp(s) \/ WriteTemp(s)
          \/ WriteFileFails(s) \/ Rename(s) \/ RenameFails(s)
    \/ Interrupt
    \/ Start

SpecStorage == InitStorage /\ [][NextStorage]_vars

\* C31: the document file is never a partially written file, and whenever
\* it changes it becomes the complete document a save has marshalled; an
\* interruption leaves it as it was.
C31_DocumentReplacedAtomically ==
    /\ [](output.file.exists => output.file.complete)
    /\ [][ /\ output'.file # output.file =>
                 \E s \in Streams : /\ output.pc[s] = "written"
                                    /\ output'.file = CompleteFile(output.buf[s])
           /\ output'.down => output'.file = output.file
         ]_vars

\* the process was interrupted while the temporary file was half written,
\* the document is the one of the save before
C31_Witness ==
    /\ output.down
    /\ output.temp = PartialFile
    /\ output.file.exists
    /\ output.file.doc["k1"] = 1
    /\ output.file.doc["k2"] = 0

\* C35: when no call of Set is in progress and the last call for an item
\* returned success, the record of that call is in the in-memory store and
\* in the document, whatever the calls of the other stream did.
C35_NoRecordLost ==
    (output # <<>> /\ ~output.down /\ \A s \in Streams : output.pc[s] = "idle") =>
        \A s \in Streams :
            output.result[s] = "ok" =>
                /\ output.data[RatingKeyOf[s]] = output.calls[s]
                /\ output.file.complete
                /\ output.file.doc[RatingKeyOf[s]] = output.calls[s]

\* both streams have made all their calls, all with success, and both
\* items have their last record in the store and in the document
C35_Witness ==
    /\ \A s \in Streams : output.pc[s] = "idle" /\ output.result[s] = "ok"
                             /\ output.calls[s] = MaxSets
    /\ output.interruptions = 0
    /\ output.data["k1"] = MaxSets /\ output.data["k2"] = MaxSets
    /\ output.file.doc = output.data

(***************************************************************************)
(* SpecEphemeral: the export-only Processor with DATA_DIR set or not.      *)
(* Without DATA_DIR NewProcessor creates no Storage (p.storage is nil); a  *)
(* document an earlier run left is neither read nor written.               *)
(***************************************************************************)

\* DATA_DIR has no default
DataDirs == {"", "/data"}

InitEphemeral == InitWith(ConfigsWith(DataDirs), "library")

\* p.storage is nil, the record is read and the item is skipped all the same
ExportOnlyProcessEphemeralSkipping ==
    /\ InLoop
    /\ cfg.DataDir = ""
    /\ \E readOK \in ReadOutcomes(TRUE), currentLabels \in {plexTags[CurrentItem]} :
          /\ Inject(Cost(readOK))
          /\ accumulated' = Exported(readOK, currentLabels)
          /\ IF alreadySynced(storageFile[CurrentItem], cfg)
             THEN Iterated("already synced", "no call", ExportRead(readOK), <<>>, "no call",
                           <<>>, "no call", <<>>, FALSE, 0, 0, 1, 1)
             ELSE Iterated("processed", "no call", ExportRead(readOK), <<>>, "no call",
                           <<>>, "no call", <<>>, FALSE, 1, 0, 0, 0)
    /\ UNCHANGED <<plexTags, storageData, storageFile>>

\* p.storage is nil: no record is read, the item is exported, no record is
\* stored, and the item counts as new
ExportOnlyProcessEphemeral ==
    /\ InLoop
    /\ cfg.DataDir = ""
    /\ \E readOK \in ReadOutcomes(TRUE), currentLabels \in {plexTags[CurrentItem]} :
          /\ Inject(Cost(readOK))
          /\ accumulated' = Exported(readOK, currentLabels)
          /\ Iterated("processed", "no call", ExportRead(readOK), <<>>, "no call",
                      <<>>, "no call", <<>>, FALSE, 1, 0, 0, 0)
    /\ UNCHANGED <<plexTags, storageData, storageFile>>

NextEphemeral ==
    \/ BeginLibrary \/ FetchItemsFails
    \/ ExportOnlySkip \/ ExportOnlyProcess \/ ExportOnlyProcessEphemeral
    \/ EndLibrary \/ NoFlush \/ FlushSucceeds \/ FlushFails \/ Tick

SpecEphemeral == InitEphemeral /\ [][NextEphemeral]_vars

MaxRetriesBound == 2

DefaultMaxRetries == 7

\* the retryable statuses of DefaultRetryConfig
RetryableStatus == {429, 503, 504, 502, 408, 500}

\* the statuses of the answers
AnswerStatuses == {200, 404, 429, 503}

IsRetryableStatus(statusCode) == statusCode \in RetryableStatus

\* *http.Response: nil, or a response with its StatusCode
NoResponse == [isNil |-> TRUE, StatusCode |-> 0]
Response(statusCode) == [isNil |-> FALSE, StatusCode |-> statusCode]

\* what r.client.Do returned in one attempt
Attempt(resp, err) == [resp |-> resp, err |-> err]

InitRetry ==
    /\ input \in [MaxRetries : (0..MaxRetriesBound) \cup {DefaultMaxRetries}]
    /\ output = [pc |-> "top", attempt |-> 0, log |-> <<>>, lastErr |-> "nil",
                 lastResp |-> NoResponse, cancelled |-> FALSE,
                 resp |-> NoResponse, err |-> "nil"]
    /\ EngineIdle /\ FetchIdle /\ FlushIdle

RetryUnchanged == UNCHANGED <<input, engineVars, fetchVars, flushVars>>

\* the head of the loop: the context is not cancelled; before every attempt
\* but the first the delay is waited for
LoopHead ==
    /\ output.pc = "top"
    /\ output.attempt <= input.MaxRetries
    /\ ~output.cancelled
    /\ output' = [output EXCEPT !.pc = IF output.attempt > 0 THEN "wait" ELSE "send"]
    /\ RetryUnchanged

\* if ctx.Err() != nil { return nil, ctx.Err() }
LoopHeadCancelled ==
    /\ output.pc = "top"
    /\ output.attempt <= input.MaxRetries
    /\ output.cancelled
    /\ output' = [output EXCEPT !.pc = "returned", !.resp = NoResponse, !.err = "context"]
    /\ RetryUnchanged

\* case <-time.After(delay)
DelayElapses ==
    /\ output.pc = "wait"
    /\ output' = [output EXCEPT !.pc = "send"]
    /\ RetryUnchanged

\* case <-ctx.Done(): return nil, ctx.Err()
DelayCancelled ==
    /\ output.pc = "wait"
    /\ output.cancelled
    /\ output' = [output EXCEPT !.pc = "returned", !.resp = NoResponse, !.err = "context"]
    /\ RetryUnchanged

\* r.client.Do returns an error
AttemptFails ==
    /\ output.pc = "send"
    /\ output' = [output EXCEPT !.log = Append(@, Attempt(NoResponse, "network")), !.lastErr = "network",
                                !.attempt = @ + 1, !.pc = "top"]
    /\ RetryUnchanged

\* r.client.Do returns a response with a retryable status
AttemptRetryable ==
    /\ output.pc = "send"
    /\ \E statusCode \in AnswerStatuses :
          /\ IsRetryableStatus(statusCode)
          /\ output' = [output EXCEPT !.log = Append(@, Attempt(Response(statusCode), "nil")),
                                      !.lastErr = "status",
                                      !.lastResp = Response(statusCode),
                                      !.attempt = @ + 1, !.pc = "top"]
    /\ RetryUnchanged

\* r.client.Do returns a response with another status: return resp, nil
AttemptAnswered ==
    /\ output.pc = "send"
    /\ \E statusCode \in AnswerStatuses :
          /\ ~IsRetryableStatus(statusCode)
          /\ output' = [output EXCEPT !.log = Append(@, Attempt(Response(statusCode), "nil")),
                                      !.pc = "returned",
                                      !.resp = Response(statusCode), !.err = "nil"]
    /\ RetryUnchanged

\* the loop has ended and the last response is returned without error
ExhaustedWithoutError ==
    /\ output.pc = "top"
    /\ output.attempt > input.MaxRetries
    /\ output' = [output EXCEPT !.pc = "returned", !.resp = output.lastResp, !.err = "nil"]
    /\ RetryUnchanged

\* the loop has ended: all retries exhausted
Exhausted ==
    /\ output.pc = "top"
    /\ output.attempt > input.MaxRetries
    /\ output' = [output EXCEPT !.pc = "returned", !.resp = output.lastResp,
                                !.err = IF output.lastErr # "nil" THEN "retries" ELSE "nil"]
    /\ RetryUnchanged

\* the context of the request is cancelled by its owner
ContextCancelled ==
    /\ output.pc # "returned"
    /\ ~output.cancelled
    /\ output' = [output EXCEPT !.cancelled = TRUE]
    /\ RetryUnchanged

NextRetry ==
    \/ LoopHead \/ LoopHeadCancelled \/ DelayElapses \/ DelayCancelled
    \/ AttemptFails \/ AttemptRetryable \/ AttemptAnswered
    \/ Exhausted \/ ContextCancelled

SpecRetry == InitRetry /\ [][NextRetry]_vars

Retryable(a) == a.err # "nil" \/ IsRetryableStatus(a.resp.StatusCode)

\* C33: one call makes at most MaxRetries + 1 attempts; an attempt answered
\* with a status that is not retryable is the last one and its response is
\* returned without error; a call all of whose attempts ended in a network
\* error or a retryable status returns an error.
C33_BoundedAttempts ==
    output # <<>> =>
        /\ Len(output.log) <= input.MaxRetries + 1
        /\ \A i \in 1..Len(output.log) :
              ~Retryable(output.log[i]) =>
                  /\ i = Len(output.log)
                  /\ output.pc = "returned"
                  /\ output.resp = output.log[i].resp
                  /\ output.err = "nil"
        /\ (output.pc = "returned" /\ \A i \in 1..Len(output.log) : Retryable(output.log[i]))
              => output.err # "nil"

\* the default configuration: eight attempts, the last answered with 503,
\* and the call has returned an error
C33_Witness ==
    /\ input.MaxRetries = DefaultMaxRetries
    /\ output.pc = "returned"
    /\ Len(output.log) = DefaultMaxRetries + 1
    /\ output.log[DefaultMaxRetries + 1].resp.StatusCode = 503
    /\ output.err = "retries"
    /\ ~output.cancelled

(***************************************************************************)
(* SpecStreams: two streams of processing share one Exporter.  Each calls  *)
(* SetCurrentLibrary for its library and then ExportItemWithSizes for the  *)
(* items of that library; every call runs under e.mutex from its first to  *)
(* its last statement.  input is the number of items of each library,      *)
(* output the exporter and the position of each stream.                    *)
(***************************************************************************)

MaxStreamItems == 2

ExportStreams == {"movies", "tv"}

StreamLibrary == [movies |-> <<"M","o","v","i","e","s">>, tv |-> <<"T","V">>]

\* the k-th item of the library of a stream: one file, and the label Action
StreamItemLabels == << <<"a","c","t","i","o","n">> >>
StreamItemFiles(s, k) ==
    << FileInfo((IF s = "movies" THEN <<"/","m","/">> ELSE <<"/","t","/">>) \o Itoa(k) \o <<".","m","k","v">>, k) >>

InitStreams ==
    /\ input \in [ExportStreams -> 1..MaxStreamItems]
    /\ output = [accumulated |-> NoAccumulation, currentLibrary |-> <<>>,
                 set |-> [s \in ExportStreams |-> FALSE],
                 recorded |-> [s \in ExportStreams |-> 0]]
    /\ EngineIdle /\ FetchIdle /\ FlushIdle

StreamsUnchanged == UNCHANGED <<input, engineVars, fetchVars, flushVars>>

\* a stream begins its library: exporter.SetCurrentLibrary(libraryName)
StreamSetsLibrary(s) ==
    /\ ~output.set[s]
    /\ output' = [output EXCEPT
                    !.currentLibrary = currentLibraryAfter(@, StreamLibrary[s]),
                    !.accumulated = registerLibrary(@, ExportLabels, StreamLibrary[s], TRUE),
                    !.set[s] = TRUE]
    /\ StreamsUnchanged

\* a stream records its next item: exporter.ExportItemWithSizes(...)
StreamRecordsItem(s) ==
    /\ output.set[s]
    /\ output.recorded[s] < input[s]
    /\ output' = [output EXCEPT
                    !.accumulated = ExportItemWithSizes(@, output.currentLibrary, ExportLabels,
                                        StreamItemLabels,
                                        StreamItemFiles(s, output.recorded[s] + 1)),
                    !.recorded[s] = @ + 1]
    /\ StreamsUnchanged

NextStreams == \E s \in ExportStreams : StreamSetsLibrary(s) \/ StreamRecordsItem(s)

SpecStreams == InitStreams /\ [][NextStreams]_vars

FilesOf(bucket) == { bucket[i] : i \in 1..Len(bucket) }

\* C34: every item a stream has recorded has its file in the bucket of the
\* label under the library of that stream, and in no other library.
C34_RecordedUnderOwnLibrary ==
    output # <<>> =>
        \A s \in ExportStreams : \A k \in 1..output.recorded[s] :
            \A library \in DOMAIN output.accumulated :
                (StreamItemFiles(s, k)[1] \in
                     FilesOf(BucketOf(output.accumulated, library, ExportLabels[1])))
                <=> library = StreamLibrary[s]

\* no recorded entry is lost: every recorded file is in exactly one bucket
\* of the label, once
C34_NoEntryLost ==
    output # <<>> =>
        \A s \in ExportStreams : \A k \in 1..output.recorded[s] :
            Cardinality({ <<library, i>> \in
                            UNION { {library} \X (1..Len(BucketOf(output.accumulated, library, ExportLabels[1])))
                                    : library \in DOMAIN output.accumulated } :
                          BucketOf(output.accumulated, library, ExportLabels[1])[i]
                              = StreamItemFiles(s, k)[1] }) = 1

\* the sum of the three counters of ProcessAllItems
Counted == counters.newItems + counters.updatedItems + counters.skippedItems

\* C36: while a library is processed the three counters add up to the
\* number of items the loop has gone past, so at the end of the loop they
\* add up to the number of items listed; the already-existing skips are
\* among the skipped items.
C36_CountersAddUp ==
    phase = "items" =>
        /\ Counted = cursor.item - 1
        /\ cursor.item > Len(CurrentLib.items) => Counted = Len(CurrentLib.items)
        /\ counters.skippedAlreadyExist <= counters.skippedItems

\* the loop over the two movies has ended with one movie updated and counted
\* as new and one skipped for want of an identifier
C36_Witness ==
    /\ phase = "items"
    /\ cursor.lib = 1
    /\ cursor.item = 3
    /\ counters.skippedItems = 1
    /\ counters.newItems = 1
    /\ visited["m1"].branch = "updated"
    /\ visited["m2"].branch = "no id"

(***************************************************************************)
(* SpecRemoveThenSync: a run in removal mode (handleRemoveMode,            *)
(* RemoveKeywordsFromItems for every library), after which the process     *)
(* exits, followed by a run in normal mode over the same libraries with    *)
(* the same DATA_DIR.                                                      *)
(***************************************************************************)

InitRemoveThenSync == InitWith(Configs, "removal")

InRemovalLoop == phase = "removal" /\ cursor.item <= Len(CurrentLib.items)

RemovalUnchanged ==
    /\ UNCHANGED <<cfg, accumulated, currentLibrary, exportFiles, pass, counters, last, visited>>
    /\ UNCHANGED <<pureVars, fetchVars, flushVars>>

\* what one iteration of RemoveKeywordsFromItems works on
removalCall(tmdbID, keywordsOK, removeOK) ==
    [currentValues |-> plexTags[CurrentItem],
     rawKeywords |-> IF tmdbID = <<>> THEN <<>> ELSE ProviderKeywords(tmdbID),
     keywordsError |-> ~keywordsOK,
     removeError |-> ~removeOK,
     RemoveMode |-> "lock"]

\* the tags of the item after one iteration of RemoveKeywordsFromItems
tagsAfterIteration(tmdbID, detailsOK, in) ==
    IF tmdbID = <<>> \/ ~detailsOK THEN in.currentValues
    ELSE removeFromItem(in).tags

\* one iteration that also deletes the record of the item
RemoveFromCurrentItemAndRecord ==
    /\ InRemovalLoop
    /\ \E tmdbID \in {extractTMDbID(Items[CurrentItem], CurrentLib.mediaType, TRUE)} :
       \E in \in {removalCall(tmdbID, TRUE, TRUE)} :
       \E tags \in {tagsAfterIteration(tmdbID, TRUE, in)} :
          /\ Inject(0)
          /\ plexTags' = [plexTags EXCEPT ![CurrentItem] = tags]
    /\ storageData' = SetData(storageData, CurrentItem, NoRecord)
    /\ storageFile' = SavedFile(storageFile, storageData', TRUE)
    /\ cursor' = [cursor EXCEPT !.item = @ + 1]
    /\ UNCHANGED phase
    /\ RemovalUnchanged

\* one iteration of the loop of RemoveKeywordsFromItems; each of its calls
\* may fail
RemoveFromCurrentItem ==
    /\ InRemovalLoop
    /\ \E episodesOK \in EpisodeOutcomes, detailsOK \in BOOLEAN, keywordsOK \in BOOLEAN,
          removeOK \in BOOLEAN :
       \E tmdbID \in {extractTMDbID(Items[CurrentItem], CurrentLib.mediaType, episodesOK)} :
       \E in \in {removalCall(tmdbID, keywordsOK, removeOK)} :
       \E tags \in {tagsAfterIteration(tmdbID, detailsOK, in)} :
          /\ tmdbID = <<>> => detailsOK
          /\ ~detailsOK => keywordsOK
          /\ ~keywordsOK => removeOK
          /\ Inject(Cost(episodesOK) + Cost(detailsOK) + Cost(keywordsOK) + Cost(removeOK))
          /\ plexTags' = [plexTags EXCEPT ![CurrentItem] = tags]
    /\ cursor' = [cursor EXCEPT !.item = @ + 1]
    /\ UNCHANGED <<storageData, storageFile, phase>>
    /\ RemovalUnchanged

\* the library after the current one; after the last one handleRemoveMode
\* returns and the process exits
removalLeaves ==
    /\ IF cursor.lib < Len(Libraries)
       THEN phase' = phase /\ cursor' = [lib |-> cursor.lib + 1, item |-> 1]
       ELSE phase' = "exited" /\ cursor' = cursor
    /\ UNCHANGED <<plexTags, storageData, storageFile>>
    /\ RemovalUnchanged

\* fetchItems fails: RemoveKeywordsFromItems returns the error
RemovalFetchItemsFails ==
    /\ phase = "removal"
    /\ cursor.item = 1
    /\ Inject(1)
    /\ removalLeaves

\* the loop is over and RemoveKeywordsFromItems returns nil
RemovalEndLibrary ==
    /\ phase = "removal"
    /\ cursor.item > Len(CurrentLib.items)
    /\ Inject(0)
    /\ removalLeaves

\* the process is started again without REMOVE: NewProcessor loads the
\* document, handleNormalMode begins its first pass
StartNormalRun ==
    /\ phase = "exited"
    /\ phase' = "library"
    /\ cursor' = [lib |-> 1, item |-> 1]
    /\ storageData' = storageFile
    /\ UNCHANGED <<plexTags, storageFile, failures>>
    /\ RemovalUnchanged

NextRemoveThenSync ==
    \/ RemoveFromCurrentItem \/ RemovalFetchItemsFails \/ RemovalEndLibrary
    \/ StartNormalRun
    \/ BeginLibrary \/ FetchItemsFails
    \/ SkipAlreadySynced \/ SkipNoTMDbID \/ SkipKeywordsFailed \/ SkipDetailsFailed
    \/ SkipHasAllKeywords \/ UpdateFails \/ UpdateSucceeds
    \/ EndLibrary

SpecRemoveThenSync == InitRemoveThenSync /\ [][NextRemoveThenSync]_vars

\* C37: no step of the removal run, and not the restart after it, changes
\* the store or the document; in the normal run that follows, with force
\* mode off, an item whose record is synced for the configured field is
\* skipped as already synced.
C37_RemovalKeepsRecords ==
    /\ [][ (phase \in {"removal", "exited"}) =>
               (storageData' = storageData /\ storageFile' = storageFile) ]_vars
    /\ []((phase \notin {"removal", "exited"} /\ last.item # "" /\ ~cfg.ForceUpdate
             /\ last.processed.exists /\ last.processed.synced
             /\ last.processed.field = cfg.UpdateField)
            => last.branch = "already synced")

\* the removal run took the two keywords off the first movie; the normal
\* run has skipped that movie as already synced and left it without them
C37_Witness ==
    /\ phase = "items"
    /\ ~cfg.ForceUpdate
    /\ last.item = "m1"
    /\ last.branch = "already synced"
    /\ plexTags["m1"] = << <<"4","K">> >>

\* the lines of the list are pairwise different
NoDuplicates(lines) ==
    \A i, j \in 1..Len(lines) : lines[i] = lines[j] => i = j

\* the listings a successful flush has just written hold no path twice
FlushedWithoutDuplicates ==
    \A name \in DOMAIN accumulated : \A n \in 1..Len(ExportLabels) :
        NoDuplicates(exportFiles'[ExportFile(name, ExportLabels[n])])

\* C38: after every successful flush no listing of a library and a label
\* holds the path of a file twice, also when an earlier flush failed.
C38_NoDuplicateInFlushedListing ==
    [][ FlushedNow => FlushedWithoutDuplicates ]_vars

\* the same for the flushes before which no call of the process has failed
C38_NoDuplicateWithoutEarlierFailure ==
    [][ (FlushedNow /\ failures.calls = 0) => FlushedWithoutDuplicates ]_vars

----------------------------------------------------------------------------
(* Re-application of CleanDuplicateKeywords under SpecReconcile: the second *)
(* result is the reconciliation of the first result with the same fresh    *)
(* keywords, as a forced run over an item whose tags were just pushed.     *)

\* C39: reconciling the result of a reconciliation with the same fresh
\* keywords again gives a list with the same set of elements.
C39_StableUnderReapplication ==
    Len(output) >= 2 => Range(output[2]) = Range(output[1])

\* a re-application whose first pass both removed a stale tag and added a
\* fresh keyword
C39_Witness ==
    /\ Len(output) >= 2
    /\ input[1] = << <<"s","c","i","-","f","i">>, <<"C","u","s","t","o","m"," ","T","a","g">> >>
    /\ input[2] = << <<"S","c","i","-","F","i">>, <<"A","c","t","i","o","n">> >>
    /\ output[1] = << <<"C","u","s","t","o","m"," ","T","a","g">>,
                      <<"S","c","i","-","F","i">>, <<"A","c","t","i","o","n">> >>
    /\ output[2] = output[1]

=============================================================================
